---- MODULE Spec2Model ----
(***************************************************************************)
(* A model of mattersim's Potential (src/mattersim/forcefield/potential.py)*)
(* : the epoch loop of train_model, the two checkpoint managers save_model *)
(* and save_model_ddp, and the persistence codec save / load.              *)
(*                                                                         *)
(* Tensors are abstracted to tokens: the weights of a model are a pair     *)
(* <<kind, n>> that tells raw training weights from EMA-averaged ones and  *)
(* one epoch's weights from another's.  A validation result is the tuple   *)
(* (loss, MAE_energy, MAE_force, MAE_stress) of train_one_epoch.           *)
(***************************************************************************)
EXTENDS Integers, Sequences, FiniteSets, TLC

\* ---------------------------------------------------------------- bounds
\* The `epochs` argument of train_model.
MaxEpochs == 3
\* early_stop_patience ranges over 0..MaxPatience.
MaxPatience == 1
\* Validation values range over BestMetricInit-1 .. BestMetricInit-1+MetricSpan.
MetricSpan == 1
\* Number of processes of a distributed run (ranks 0..WorldSize-1).
WorldSize == 2
\* A multi-head pass has at most MaxSources data sources.
MaxSources == 2
\* A data source (dataloader) has at most MaxBatches batches.
MaxBatches == 2
\* A model has at most MaxLayers encoder layers.
MaxLayers == 2
\* Energies, forces and stresses (labels and predictions) range over
\* 0..MaxValue.
MaxValue == 1
\* A structure has at most MaxAtoms atoms.
MaxAtoms == 2
\* The norm of the gradient a batch's loss produces.
GradNorm == 2
\* A multi-head record has at most MaxHeads heads.
MaxHeads == 11

\* ------------------------------------------------------- program constants
\* self.best_metric = 10
BestMetricInit == 10
\* kwargs.get("validation_metrics", {"loss": 10000.0})
DefaultLoss == 10000
\* kwargs.get("last_epoch", -1)
DefaultLastEpoch == -1
\* self.rank = None
RankNone == -1
\* kwargs.get("seed", 42)
DefaultSeed == 42
\* max_norm of nn.utils.clip_grad_norm_
MaxNorm == 1

\* self.saved_name
saved_name == <<"loss", "MAE_energy", "MAE_force", "MAE_stress">>

\* The list searched by train_model and asserted by both checkpoint managers.
SupportedMetrics == <<"val_loss", "val_mae_e", "val_mae_f", "val_mae_s">>

\* A metric name outside the supported list.
BadMetricName == "val_mae"

\* list.index: the 0-based position of name, or -1 where Python raises
\* ValueError.
IndexOf(name) ==
    IF \E i \in 1..Len(SupportedMetrics) : SupportedMetrics[i] = name
    THEN (CHOOSE i \in 1..Len(SupportedMetrics) : SupportedMetrics[i] = name) - 1
    ELSE -1

\* ------------------------------------------------------------------ files
BestFile == "best_model.pth"
LastFile == "last_model.pth"
CkptFile(e) == "ckpt_" \o ToString(e) \o ".pth"
FileNames == {BestFile, LastFile} \cup {CkptFile(e) : e \in 0..MaxEpochs}

\* What a path of save_path holds: nothing, bytes torch.load cannot read, or
\* a checkpoint record.
Absent == [kind |-> "absent"]
Corrupt == [kind |-> "corrupt"]

\* ------------------------------------------------------------ the model
\* The energy model: its class, constructor arguments, weights, and whether
\* it is wrapped in DistributedDataParallel (then it has a .module).
M3Gnet(cls, model_args) ==
    [cls |-> cls, model_args |-> model_args, weights |-> <<"init", 0>>,
     wrapped |-> FALSE]

\* Variant of UnwrappedStateDict: self.model.state_dict() whatever the model
\* is; a wrapped model names its entries "module.*".
StateDict(model) ==
    [prefix |-> IF model.wrapped THEN "module." ELSE "", weights |-> model.weights]

\* self.model.module.state_dict() if hasattr(self.model, "module")
\* else self.model.state_dict()
UnwrappedStateDict(model) == [prefix |-> "", weights |-> model.weights]

\* Variant of LoadStateDict: nothing is loaded.
LoadStateDictNothing(model, sd) == model

\* model.load_state_dict(sd, strict=False) on an unwrapped model: entries
\* whose names do not match are ignored.
LoadStateDict(model, sd) ==
    IF sd.prefix = "" THEN [model EXCEPT !.weights = sd.weights] ELSE model

\* Adam(model.parameters()): `id` names the object, `state` its step state.
Adam(id) == [id |-> id, state |-> 0]

\* StepLR(optimizer, ...): bound to the optimizer object named opt.
StepLR(opt) == [kind |-> "StepLR", opt |-> opt.id, state |-> 0]

\* ReduceLROnPlateau(optimizer, mode="min", ...): bound to the optimizer
\* object named opt.
ReduceLROnPlateau(opt) == [kind |-> "ReduceLROnPlateau", opt |-> opt.id, state |-> 0]

\* ExponentialMovingAverage(model.parameters()): the shadow starts as a copy
\* of the parameters.
ExponentialMovingAverage(model) == [shadow |-> model.weights]

NoObject == [none |-> TRUE]

\* Potential.__init__: an absent optimizer / ema and a scheduler given by
\* name are constructed here.
Potential(model, optimizer, scheduler, ema, model_name, last_epoch, validation_metrics, description) ==
    LET opt == IF optimizer = NoObject THEN Adam("init") ELSE optimizer
    IN  [model |-> model,
         optimizer |-> opt,
         scheduler |-> IF scheduler = [name |-> "StepLR"] THEN StepLR(opt)
                       ELSE IF scheduler = [name |-> "ReduceLROnPlateau"]
                       THEN ReduceLROnPlateau(opt)
                       ELSE scheduler,
         ema |-> IF ema = NoObject THEN ExponentialMovingAverage(model) ELSE ema,
         model_name |-> model_name,
         validation_metrics |-> validation_metrics,
         last_epoch |-> last_epoch,
         description |-> description,
         best_metric |-> BestMetricInit,
         rank |-> RankNone,
         idx |-> 0]

\* Variant of average_parameters: the shadow weights are not swapped in.
AverageParametersNoSwap(self) == self

\* with self.ema.average_parameters(): inside the block the model holds the
\* shadow weights; leaving the block restores the stored ones.
average_parameters(self) == [self EXCEPT !.model.weights = self.ema.shadow]

\* Variant of restore: the stored parameters are not put back.
RestoreNothing(inside, stored) == inside

\* Leaving `with self.ema.average_parameters()`: the parameters stored on
\* entry are copied back into the model.
restore(inside, stored) == [inside EXCEPT !.model.weights = stored]

\* The record Potential.save hands to torch.save.
Checkpoint(self) ==
    [kind |-> "record",
     model_name |-> self.model_name,
     model |-> UnwrappedStateDict(self.model),
     model_args |-> self.model.model_args,
     optimizer |-> self.optimizer,
     ema |-> self.ema,
     scheduler |-> self.scheduler,
     last_epoch |-> self.last_epoch,
     validation_metrics |-> self.validation_metrics,
     description |-> self.description]

\* ------------------------------------------------------------------ state
VARIABLES
    args,      \* the arguments of train_model (one call per behaviour)
    pot,       \* pot[p]: the Potential object of process p
    pc,        \* pc[p]: where process p is in train_model
    epoch,     \* epoch[p]: the loop variable of train_model
    metric,    \* metric[p]: the validation result of the current epoch
    files,     \* files[name]: what save_path/name holds
    call,      \* call[p]: p's last checkpoint-manager call: what torch.load
               \* gave for best_model.pth, the files written, the result
    best_seen, \* history: the epoch and value of the best selected metric
               \* so far (best_model.pth before the run, then every epoch)
    loaded,    \* the result of the last Potential.load
    run,       \* the call of train_one_epoch(_multi_head) in progress
    last_op,   \* the last call of a single-step operation and its outcome
    hist       \* hist[p]: p's call of train_model: the Potential on entry,
               \* the epochs completed, the list of shards as it stands,
               \* the shards held in memory and the passes made so far

vars == <<args, pot, pc, epoch, metric, files, call, best_seen, loaded, run, last_op, hist>>

Procs == DOMAIN pot

\* ----------------------------------------------------------- input sets
MetricVals == (BestMetricInit - 1)..(BestMetricInit - 1 + MetricSpan)

\* train_one_epoch(mode="val") with the defaults include_energy=True,
\* include_forces=False, include_stresses=False: the slots of the excluded
\* quantities are 0.
ValMetrics == {<<l, e, 0, 0>> : l \in MetricVals, e \in MetricVals}

\* self.validation_metrics as train_model sets it from the tuple.
MetricsDict(m) ==
    [loss |-> m[1], MAE_energy |-> m[2], MAE_force |-> m[3], MAE_stress |-> m[4]]

ModelArgs == [num_blocks |-> 3]

\* A Potential that was just constructed around an untrained model.
FreshPotential ==
    Potential(M3Gnet("m3gnet", ModelArgs), NoObject, [name |-> "StepLR"],
              NoObject, "m3gnet", DefaultLastEpoch, [loss |-> DefaultLoss], "")

\* best_model.pth as an earlier run in the same save_path may have left it:
\* nothing, an unreadable file, a legacy record without epoch metadata (load
\* tolerates those), or the record of epoch 0 of an earlier run.
LegacyRecord ==
    [kind |-> "record", model_name |-> "m3gnet",
     model |-> UnwrappedStateDict(M3Gnet("m3gnet", ModelArgs)),
     model_args |-> ModelArgs]

PriorBest ==
    {Absent, Corrupt, LegacyRecord,
     Checkpoint([FreshPotential EXCEPT
                    !.last_epoch = 0,
                    !.validation_metrics =
                        MetricsDict(<<BestMetricInit, BestMetricInit, 0, 0>>)])}

NoLoad == [path |-> "", model_name |-> "", load_training_state |-> FALSE,
           result |-> [status |-> "none"]]

NoCall == [best_model |-> "none", wrote |-> {}, ret |-> FALSE]

NoRun == [mode |-> "none"]

NoOp == [op |-> "none"]

\* The record of a call of train_model on `self` with the list of shards
\* `dataloader` (empty when the data is not streamed): nothing done yet.
NewHist(self, dataloader) ==
    [before |-> self, ran |-> <<>>, passed |-> dataloader,
     dataloader |-> dataloader, idx |-> 0, held |-> {}, events |-> <<>>,
     stepped |-> <<>>, error |-> ""]

\* The best result on record before the run: that of best_model.pth when it
\* holds the selected metric.
PriorBestSeen(b, idx) ==
    IF /\ b.kind = "record"
       /\ idx >= 0
       /\ "last_epoch" \in DOMAIN b
       /\ "validation_metrics" \in DOMAIN b
       /\ saved_name[idx + 1] \in DOMAIN b.validation_metrics
    THEN [set |-> TRUE, epoch |-> b.last_epoch,
          value |-> b.validation_metrics[saved_name[idx + 1]]]
    ELSE [set |-> FALSE, epoch |-> 0, value |-> 0]

\* The best result on record after an epoch e whose selected metric is v.
BestSeenAfter(b, e, v) ==
    IF ~b.set \/ v < b.value THEN [set |-> TRUE, epoch |-> e, value |-> v] ELSE b

\* The calls of train_model considered; modes is the set of values of
\* is_distributed.
TrainArgs(modes) ==
    [epochs : {MaxEpochs},
     early_stop_patience : 0..MaxPatience,
     metric_name : {SupportedMetrics[i] : i \in 1..Len(SupportedMetrics)}
                   \cup {BadMetricName},
     save_checkpoint : BOOLEAN,
     ckpt_interval : {2, 3},
     is_distributed : modes,
     multi_head : {FALSE},
     dataset_name_list : {"None"},
     need_to_load_data : {FALSE},
     seed : {DefaultSeed}]

\* One call of train_model per process on freshly constructed Potentials: a
\* single process, or WorldSize processes around a wrapped model.
InitOf(modes) ==
    /\ args \in TrainArgs(modes)
    /\ \E n \in {1, WorldSize} :
          /\ n = 1 <=> ~args.is_distributed
          /\ pot = [p \in 0..(n - 1) |->
                      [FreshPotential EXCEPT !.model.wrapped = args.is_distributed]]
          /\ pc = [p \in 0..(n - 1) |-> "call"]
          /\ epoch = [p \in 0..(n - 1) |-> 0]
          /\ metric = [p \in 0..(n - 1) |-> <<0, 0, 0, 0>>]
          /\ call = [p \in 0..(n - 1) |-> NoCall]
          /\ \E b \in PriorBest :
                /\ files = [f \in FileNames |-> IF f = BestFile THEN b ELSE Absent]
                /\ best_seen = [p \in 0..(n - 1) |->
                                  PriorBestSeen(b, IndexOf(args.metric_name))]
    /\ loaded = NoLoad
    /\ run = NoRun
    /\ last_op = NoOp
    /\ hist = [p \in DOMAIN pot |-> NewHist(pot[p], <<>>)]

\* ------------------------------------------------------------ train_model
\* Variant of FirstEpoch: the loop starts at epoch 0 whatever was run before.
FirstEpochZero(self) == 0

\* The first value of `for epoch in range(self.last_epoch + 1, epochs)`.
FirstEpoch(self) == self.last_epoch + 1

\* Entry of train_model: self.idx from metric_name (ValueError for a name
\* outside the list), self.rank in a distributed run, and the range of the
\* epoch loop.
train_model_enter(p) ==
    /\ pc[p] = "call"
    /\ IF IndexOf(args.metric_name) = -1
       THEN /\ pc' = [pc EXCEPT ![p] = "raised"]
            /\ UNCHANGED <<pot, epoch>>
       ELSE /\ pot' = [pot EXCEPT
                          ![p].idx = IndexOf(args.metric_name),
                          ![p].rank = IF args.is_distributed THEN p ELSE @]
            /\ epoch' = [epoch EXCEPT ![p] = FirstEpoch(pot[p])]
            /\ pc' = [pc EXCEPT ![p] = "loop"]
    /\ UNCHANGED <<hist, args, metric, files, call, best_seen, loaded, run, last_op>>

\* One training pass (mode="train"): every batch steps the optimizer and
\* updates the EMA shadow.
TrainPass(self, e) ==
    [self EXCEPT !.model.weights = <<"raw", e>>,
                 !.optimizer.state = @ + 1,
                 !.ema.shadow = <<"ema", e>>]

\* self.scheduler.step()
SchedulerStep(self) == [self EXCEPT !.scheduler.state = @ + 1]

\* What train_model passes to self.scheduler.step after a validation pass
\* that returned the tuple m: the tuple as it is to a ReduceLROnPlateau,
\* nothing to any other scheduler.
StepArgument(self, m) ==
    IF self.scheduler.kind = "ReduceLROnPlateau"
    THEN [kind |-> "tuple", value |-> m]
    ELSE [kind |-> "none"]

\* ReduceLROnPlateau.step(metrics) begins with float(metrics), a TypeError
\* for a tuple.
StepRaises(argument) == argument.kind = "tuple"

\* Variant of EpochEnd: last_epoch and validation_metrics are not recorded
\* before the checkpoint manager is called.
EpochEndUnrecorded(self, e, m) == SchedulerStep(self)

\* What follows the validation pass (result m) of epoch e: one scheduler
\* step, then last_epoch and validation_metrics are recorded.
EpochEnd(self, e, m) ==
    [SchedulerStep(self) EXCEPT !.last_epoch = e,
                                !.validation_metrics = MetricsDict(m)]

\* The branch of the loop body the arguments select: multi-head training
\* asserts dataset_name_list is not None and need_to_load_data is False.
Rejected == args.multi_head /\ (args.dataset_name_list = "None" \/ args.need_to_load_data)

Streaming == ~args.multi_head /\ args.need_to_load_data

\* The body of the epoch loop up to the call of the checkpoint manager when
\* the data is not streamed: training pass, validation pass (result m),
\* scheduler step, then last_epoch and validation_metrics are recorded.
train_model_epoch(p) ==
    /\ pc[p] = "loop"
    /\ epoch[p] < args.epochs
    /\ ~Rejected /\ ~Streaming
    /\ \E m \in ValMetrics :
          /\ metric' = [metric EXCEPT ![p] = m]
          /\ IF StepRaises(StepArgument(pot[p], m))
             THEN /\ pot' = [pot EXCEPT ![p] = TrainPass(pot[p], epoch[p])]
                  /\ pc' = [pc EXCEPT ![p] = "raised"]
                  /\ hist' = [hist EXCEPT
                                 ![p].stepped = Append(@, StepArgument(pot[p], m)),
                                 ![p].error = "TypeError"]
             ELSE /\ pot' = [pot EXCEPT ![p] =
                                EpochEnd(TrainPass(pot[p], epoch[p]), epoch[p], m)]
                  /\ pc' = [pc EXCEPT ![p] = "ckpt"]
                  /\ hist' = [hist EXCEPT
                                 ![p].stepped = Append(@, StepArgument(pot[p], m)),
                                 ![p].ran = Append(@, epoch[p])]
    /\ UNCHANGED <<args, epoch, files, call, best_seen, loaded, run, last_op>>

\* An epoch of multi-head training begins without dataset_name_list or with
\* need_to_load_data: one of the two assertions fails.
train_model_assert(p) ==
    /\ pc[p] = "loop"
    /\ epoch[p] < args.epochs
    /\ Rejected
    /\ pc' = [pc EXCEPT ![p] = "raised"]
    /\ hist' = [hist EXCEPT ![p].error = "AssertionError"]
    /\ UNCHANGED <<args, pot, epoch, metric, files, call, best_seen, loaded, run, last_op>>

\* random.Random(seed).shuffle(x) for a list x of n items puts at position
\* i the item that was at position ShuffleOrder(seed, n)[i] (0-based): the
\* permutations CPython's generator gives for the seeds 42..49.
ShuffleOrder(seed, n) ==
    IF n = 2
    THEN <<<<1, 0>>, <<1, 0>>, <<0, 1>>, <<0, 1>>,
           <<1, 0>>, <<0, 1>>, <<0, 1>>, <<1, 0>>>>[seed - 41]
    ELSE IF n = 3
    THEN <<<<1, 0, 2>>, <<2, 1, 0>>, <<2, 0, 1>>, <<0, 2, 1>>,
           <<2, 1, 0>>, <<2, 0, 1>>, <<0, 1, 2>>, <<2, 1, 0>>>>[seed - 41]
    ELSE [i \in 1..n |-> i - 1]

Shuffle(x, seed) == [i \in 1..Len(x) |-> x[ShuffleOrder(seed, Len(x))[i] + 1]]

\* An epoch of streamed training begins: the list of shards is shuffled in
\* place with the seed kwargs.get("seed", 42) + epoch.
train_model_shuffle(p) ==
    /\ pc[p] = "loop"
    /\ epoch[p] < args.epochs
    /\ Streaming
    /\ hist' = [hist EXCEPT
                   ![p].dataloader = Shuffle(@, args.seed + epoch[p]),
                   ![p].idx = 0]
    /\ pc' = [pc EXCEPT ![p] = "shards"]
    /\ UNCHANGED <<args, pot, epoch, metric, files, call, best_seen, loaded, run, last_op>>

\* train_data = pickle.load(f) for the next shard of the list.
train_model_load(p) ==
    /\ pc[p] = "shards"
    /\ hist[p].idx < Len(hist[p].dataloader)
    /\ LET data_path == hist[p].dataloader[hist[p].idx + 1]
       IN  hist' = [hist EXCEPT
                       ![p].held = @ \cup {data_path},
                       ![p].events = Append(@, [epoch |-> epoch[p],
                                                op |-> "load",
                                                data_path |-> data_path,
                                                held |-> hist[p].held])]
    /\ pc' = [pc EXCEPT ![p] = "loaded"]
    /\ UNCHANGED <<args, pot, epoch, metric, files, call, best_seen, loaded, run, last_op>>

\* Variant of Release: the shard stays in memory.
ReleaseNothing(held, data_path) == held

\* del train_dataloader; del train_data
Release(held, data_path) == held \ {data_path}

\* self.train_one_epoch(train_dataloader, ..., mode="train") on the shard
\* just loaded, which is then released.
train_model_train_shard(p) ==
    /\ pc[p] = "loaded"
    /\ LET data_path == hist[p].dataloader[hist[p].idx + 1]
       IN  hist' = [hist EXCEPT
                       ![p].held = Release(@, data_path),
                       ![p].idx = @ + 1,
                       ![p].events = Append(@, [epoch |-> epoch[p],
                                                op |-> "train",
                                                data_path |-> data_path,
                                                held |-> hist[p].held])]
    /\ pot' = [pot EXCEPT ![p] = TrainPass(pot[p], epoch[p])]
    /\ pc' = [pc EXCEPT ![p] = "shards"]
    /\ UNCHANGED <<args, epoch, metric, files, call, best_seen, loaded, run, last_op>>

\* The list of shards is exhausted: validation pass (result m), scheduler
\* step, then last_epoch and validation_metrics are recorded.
train_model_validate(p) ==
    /\ pc[p] = "shards"
    /\ hist[p].idx = Len(hist[p].dataloader)
    /\ \E m \in ValMetrics :
          /\ metric' = [metric EXCEPT ![p] = m]
          /\ IF StepRaises(StepArgument(pot[p], m))
             THEN /\ pot' = pot
                  /\ pc' = [pc EXCEPT ![p] = "raised"]
                  /\ hist' = [hist EXCEPT
                       ![p].stepped = Append(@, StepArgument(pot[p], m)),
                       ![p].error = "TypeError",
                       ![p].events = Append(@, [epoch |-> epoch[p], op |-> "val",
                                                data_path |-> "",
                                                held |-> hist[p].held])]
             ELSE /\ pot' = [pot EXCEPT ![p] = EpochEnd(pot[p], epoch[p], m)]
                  /\ pc' = [pc EXCEPT ![p] = "ckpt"]
                  /\ hist' = [hist EXCEPT
                       ![p].stepped = Append(@, StepArgument(pot[p], m)),
                       ![p].ran = Append(@, epoch[p]),
                       ![p].events = Append(@, [epoch |-> epoch[p], op |-> "val",
                                                data_path |-> "",
                                                held |-> hist[p].held])]
    /\ UNCHANGED <<args, epoch, files, call, best_seen, loaded, run, last_op>>

\* The range of the epoch loop is exhausted: train_model returns.
train_model_return(p) ==
    /\ pc[p] = "loop"
    /\ epoch[p] >= args.epochs
    /\ pc' = [pc EXCEPT ![p] = "returned"]
    /\ UNCHANGED <<hist, args, pot, epoch, metric, files, call, best_seen, loaded, run, last_op>>

\* ------------------------------------------------------------- save_model
\* best_model["validation_metrics"][self.saved_name[self.idx]] can be read.
HasMetric(best, idx) ==
    /\ "validation_metrics" \in DOMAIN best
    /\ saved_name[idx + 1] \in DOMAIN best.validation_metrics

\* Variant of Improved: <= in place of <.
ImprovedOrEqual(m, best, idx) == m[idx + 1] <= best.validation_metrics[saved_name[idx + 1]]

\* metric[self.idx] < best_model["validation_metrics"][self.saved_name[self.idx]]
Improved(m, best, idx) == m[idx + 1] < best.validation_metrics[saved_name[idx + 1]]

\* epoch > best_model["last_epoch"] + early_stop_patience
PatienceExceeded(e, best, patience) == e > best.last_epoch + patience

\* The try block of save_model ends in the except clause: torch.load fails,
\* the metric name is not a supported one, or a key of the record is missing
\* where it is read (the metric only when save_checkpoint is true).
TryRaises(best, idx, metric_name, save_checkpoint) ==
    \/ best.kind # "record"
    \/ IndexOf(metric_name) = -1
    \/ save_checkpoint /\ ~HasMetric(best, idx)
    \/ "last_epoch" \notin DOMAIN best

\* Variant of save_model_outcome: the except clause saves nothing.
save_model_outcome_except_pass(self, e, m, best, a) ==
    LET raises == TryRaises(best, self.idx, a.metric_name, a.save_checkpoint)
        stop == ~raises /\ PatienceExceeded(e, best, a.early_stop_patience)
    IN  [best |-> a.save_checkpoint /\ ~raises /\ Improved(m, best, self.idx),
         stop |-> stop,
         ckpt |-> ~stop /\ a.save_checkpoint /\ e % a.ckpt_interval = 0,
         last |-> ~stop /\ a.save_checkpoint]

\* What one call of save_model does: whether best_model.pth is written (in
\* the try block on an improvement, or in the except clause), whether the
\* call returns True (early stop), and whether the code after the try block
\* is reached.
save_model_outcome(self, e, m, best, a) ==
    LET raises == TryRaises(best, self.idx, a.metric_name, a.save_checkpoint)
        stop == ~raises /\ PatienceExceeded(e, best, a.early_stop_patience)
    IN  [best |-> a.save_checkpoint /\ (raises \/ Improved(m, best, self.idx)),
         stop |-> stop,
         ckpt |-> ~stop /\ a.save_checkpoint /\ e % a.ckpt_interval = 0,
         last |-> ~stop /\ a.save_checkpoint]

\* save_model, called by train_model when is_distributed is false.  Every
\* self.save runs inside `with self.ema.average_parameters()`, so the record
\* written holds the shadow weights; leaving the block restores the model.
save_model(p) ==
    /\ pc[p] = "ckpt"
    /\ ~args.is_distributed
    /\ LET self == pot[p]
           record == Checkpoint(average_parameters(self))
           out == save_model_outcome(self, epoch[p], metric[p], files[BestFile], args)
           w == (IF out.best THEN {BestFile} ELSE {})
                \cup (IF out.ckpt THEN {CkptFile(epoch[p])} ELSE {})
                \cup (IF out.last THEN {LastFile} ELSE {})
       IN  /\ files' = [f \in FileNames |-> IF f \in w THEN record ELSE files[f]]
           /\ call' = [call EXCEPT ![p] =
                          [best_model |-> files[BestFile].kind, wrote |-> w,
                           ret |-> out.stop]]
           /\ best_seen' = [best_seen EXCEPT ![p] =
                  BestSeenAfter(@, epoch[p], metric[p][self.idx + 1])]
           /\ IF out.stop
              THEN /\ pc' = [pc EXCEPT ![p] = "early_stop"]
                   /\ UNCHANGED epoch
              ELSE /\ pc' = [pc EXCEPT ![p] = "loop"]
                   /\ epoch' = [epoch EXCEPT ![p] = @ + 1]
           /\ pot' = [pot EXCEPT ![p] =
                         restore(average_parameters(self), self.model.weights)]
    /\ UNCHANGED <<hist, args, metric, loaded, run, last_op>>

\* --------------------------------------------------------- save_model_ddp
\* Variant of ImprovedDdp: <= in place of <.
ImprovedDdpOrEqual(m, self) == m[self.idx + 1] <= self.best_metric

\* if metric[self.idx] < self.best_metric
ImprovedDdp(m, self) == m[self.idx + 1] < self.best_metric

\* Variant of IsWriter: the rank is not tested.
IsWriterAnyRank(self, save_checkpoint) == save_checkpoint

\* Variant of IsWriter: save_checkpoint is not tested.
IsWriterRankOnly(self, save_checkpoint) == self.rank = 0

\* if save_checkpoint and self.rank == 0
IsWriter(self, save_checkpoint) == save_checkpoint /\ self.rank = 0

\* Variant of DdpReturn: an epoch without improvement signals early stop.
DdpReturnOnStall(m, self) == ~ImprovedDdp(m, self)

\* return False
DdpReturn(m, self) == FALSE

\* save_model_ddp, called by train_model when is_distributed is true.  The
\* best value is kept in self.best_metric; it always returns False.
save_model_ddp(p) ==
    /\ pc[p] = "ckpt"
    /\ args.is_distributed
    /\ IF IndexOf(args.metric_name) = -1
       THEN /\ pc' = [pc EXCEPT ![p] = "raised"]
            /\ UNCHANGED <<pot, epoch, files, call>>
       ELSE LET self == pot[p]
                inside == [average_parameters(self) EXCEPT !.best_metric =
                              IF ImprovedDdp(metric[p], self)
                              THEN metric[p][self.idx + 1] ELSE @]
                record == Checkpoint(inside)
                writer == IsWriter(self, args.save_checkpoint)
                w == (IF ImprovedDdp(metric[p], self) /\ writer
                      THEN {BestFile} ELSE {})
                     \cup (IF writer /\ epoch[p] % args.ckpt_interval = 0
                           THEN {CkptFile(epoch[p])} ELSE {})
                     \cup (IF writer THEN {LastFile} ELSE {})
            IN  /\ pot' = [pot EXCEPT ![p] = restore(inside, self.model.weights)]
                /\ files' = [f \in FileNames |->
                                IF f \in w THEN record ELSE files[f]]
                /\ call' = [call EXCEPT ![p] =
                               [best_model |-> "none", wrote |-> w,
                                ret |-> DdpReturn(metric[p], self)]]
                /\ IF DdpReturn(metric[p], self)
                   THEN /\ pc' = [pc EXCEPT ![p] = "early_stop"]
                        /\ UNCHANGED epoch
                   ELSE /\ pc' = [pc EXCEPT ![p] = "loop"]
                        /\ epoch' = [epoch EXCEPT ![p] = @ + 1]
    /\ UNCHANGED <<hist, args, metric, best_seen, loaded, run, last_op>>

Next ==
    \E p \in Procs :
        \/ train_model_enter(p)
        \/ train_model_epoch(p)
        \/ train_model_return(p)
        \/ save_model(p)

\* Single-process training.
Init == InitOf({FALSE})

Spec == Init /\ [][Next]_vars

\* The scheduler names the constructor accepts.
SchedulerNames == {"StepLR", "ReduceLROnPlateau"}

\* Single-process training of a Potential constructed with either
\* scheduler.
InitScheduler ==
    /\ args \in TrainArgs({FALSE})
    /\ \E name \in SchedulerNames :
          pot = [p \in {0} |->
                   Potential(M3Gnet("m3gnet", ModelArgs), NoObject,
                             [name |-> name], NoObject, "m3gnet",
                             DefaultLastEpoch, [loss |-> DefaultLoss], "")]
    /\ pc = [p \in {0} |-> "call"]
    /\ epoch = [p \in {0} |-> 0]
    /\ metric = [p \in {0} |-> <<0, 0, 0, 0>>]
    /\ call = [p \in {0} |-> NoCall]
    /\ \E b \in PriorBest :
          /\ files = [f \in FileNames |-> IF f = BestFile THEN b ELSE Absent]
          /\ best_seen = [p \in {0} |->
                            PriorBestSeen(b, IndexOf(args.metric_name))]
    /\ loaded = NoLoad
    /\ run = NoRun
    /\ last_op = NoOp
    /\ hist = [p \in DOMAIN pot |-> NewHist(pot[p], <<>>)]

SpecScheduler == InitScheduler /\ [][Next]_vars

\* Distributed training.
InitDdp == InitOf({TRUE})

NextDdp ==
    \E p \in Procs :
        \/ train_model_enter(p)
        \/ train_model_epoch(p)
        \/ train_model_return(p)
        \/ save_model_ddp(p)

SpecDdp == InitDdp /\ [][NextDdp]_vars

\* Either kind of training.
InitAny == InitOf(BOOLEAN)

NextAny ==
    \E p \in Procs :
        \/ train_model_enter(p)
        \/ train_model_epoch(p)
        \/ train_model_return(p)
        \/ save_model(p)
        \/ save_model_ddp(p)

SpecAny == InitAny /\ [][NextAny]_vars

\* A call of train_model on a fresh Potential, or a call of one of the two
\* checkpoint managers made directly (they are public methods) on a
\* Potential that an earlier train_model left after epoch e with self.idx
\* (and, distributed, self.rank) set.
InitDirect ==
    /\ args \in TrainArgs(BOOLEAN)
    /\ \E n \in {1, WorldSize}, b \in PriorBest :
          /\ n = 1 <=> ~args.is_distributed
          /\ \/ /\ pc = [p \in 0..(n - 1) |-> "call"]
                /\ pot = [p \in 0..(n - 1) |->
                            [FreshPotential EXCEPT
                                !.model.wrapped = args.is_distributed]]
                /\ epoch = [p \in 0..(n - 1) |-> 0]
                /\ metric = [p \in 0..(n - 1) |-> <<0, 0, 0, 0>>]
             \/ \E i \in 0..(Len(saved_name) - 1), e \in 0..(MaxEpochs - 1),
                   m \in ValMetrics :
                   /\ pc = [p \in 0..(n - 1) |-> "ckpt"]
                   /\ pot = [p \in 0..(n - 1) |->
                               [SchedulerStep(TrainPass(FreshPotential, e)) EXCEPT
                                   !.model.wrapped = args.is_distributed,
                                   !.last_epoch = e,
                                   !.validation_metrics = MetricsDict(m),
                                   !.idx = i,
                                   !.rank = IF args.is_distributed THEN p ELSE @]]
                   /\ epoch = [p \in 0..(n - 1) |-> e]
                   /\ metric = [p \in 0..(n - 1) |-> m]
          /\ call = [p \in 0..(n - 1) |-> NoCall]
          /\ files = [f \in FileNames |-> IF f = BestFile THEN b ELSE Absent]
          /\ best_seen = [p \in 0..(n - 1) |->
                            PriorBestSeen(b, IndexOf(args.metric_name))]
    /\ loaded = NoLoad
    /\ run = NoRun
    /\ last_op = NoOp
    /\ hist = [p \in DOMAIN pot |-> NewHist(pot[p], <<>>)]

\* One call: pc "loop" afterwards stands for a normal return (of train_model's
\* entry into its loop, or of the manager with False).
NextDirect ==
    \E p \in Procs :
        \/ train_model_enter(p)
        \/ save_model(p)
        \/ save_model_ddp(p)

SpecDirect == InitDirect /\ [][NextDirect]_vars

\* The lists of shard files considered.
ShardLists == {<<"shard_a", "shard_b">>, <<"shard_a", "shard_b", "shard_c">>}

\* A Potential as Potential.load hands it to a run resumed after epoch k
\* (a fresh one for k = -1).
ResumedPotential(k) ==
    IF k = DefaultLastEpoch THEN FreshPotential
    ELSE [SchedulerStep(TrainPass(FreshPotential, k)) EXCEPT
             !.last_epoch = k,
             !.validation_metrics =
                 MetricsDict(<<BestMetricInit, BestMetricInit, 0, 0>>)]

\* The calls of train_model in a single process, fresh or resumed, with
\* the data in memory or streamed shard by shard, single- or multi-head.
TrainCalls ==
    [epochs : {MaxEpochs},
     early_stop_patience : 0..MaxPatience,
     metric_name : {"val_loss"},
     save_checkpoint : BOOLEAN,
     ckpt_interval : {2},
     is_distributed : {FALSE},
     multi_head : BOOLEAN,
     dataset_name_list : {"None", "list"},
     need_to_load_data : BOOLEAN,
     seed : {DefaultSeed, DefaultSeed + 1}]

InitTrain ==
    /\ args \in TrainCalls
    /\ \E k \in DefaultLastEpoch..MaxEpochs :
          pot = [p \in {0} |-> ResumedPotential(k)]
    /\ pc = [p \in {0} |-> "call"]
    /\ epoch = [p \in {0} |-> 0]
    /\ metric = [p \in {0} |-> <<0, 0, 0, 0>>]
    /\ call = [p \in {0} |-> NoCall]
    /\ files = [f \in FileNames |-> Absent]
    /\ best_seen = [p \in {0} |-> PriorBestSeen(Absent, 0)]
    /\ loaded = NoLoad
    /\ run = NoRun
    /\ last_op = NoOp
    /\ \E dataloader \in ShardLists :
          hist = [p \in {0} |->
                    NewHist(pot[p], IF args.need_to_load_data THEN dataloader
                                    ELSE <<>>)]

NextTrain ==
    \E p \in Procs :
        \/ train_model_enter(p)
        \/ train_model_epoch(p)
        \/ train_model_assert(p)
        \/ train_model_shuffle(p)
        \/ train_model_load(p)
        \/ train_model_train_shard(p)
        \/ train_model_validate(p)
        \/ train_model_return(p)
        \/ save_model(p)

SpecTrain == InitTrain /\ [][NextTrain]_vars

\* ------------------------------------------------------- Potential.load
\* The model kinds load can rebuild (M3Gnet, M3Gnet_multi_head).
LoadableModels == {"m3gnet", "m3gnet_multi_head"}

\* Variant of Restorable: no second attempt through state_dict().
RestorableDirectOnly(checkpoint, key) ==
    key \in DOMAIN checkpoint /\ "state" \in DOMAIN checkpoint[key]

\* An entry of the record that can be restored: load_state_dict accepts it
\* as it is, or (records that stored the object itself) accepts its
\* state_dict().
Restorable(checkpoint, key) ==
    /\ key \in DOMAIN checkpoint
    /\ \/ "state" \in DOMAIN checkpoint[key]
       \/ /\ "object" \in DOMAIN checkpoint[key]
          /\ "state" \in DOMAIN checkpoint[key].object

\* The state load_state_dict receives from a restorable entry.
RestoredState(checkpoint, key) ==
    IF "state" \in DOMAIN checkpoint[key] THEN checkpoint[key].state
    ELSE checkpoint[key].object.state

\* Variant of NameMatches: the stored name is not compared.
NameMatchesAlways(file, model_name) == TRUE

\* assert checkpoint["model_name"] == model_name
NameMatches(file, model_name) == file.model_name = model_name

\* checkpoint["last_epoch"], ["validation_metrics"] and ["description"] are
\* read in one try block.
HasEpochMetadata(checkpoint) ==
    {"last_epoch", "validation_metrics", "description"} \subseteq DOMAIN checkpoint

\* The epoch metadata load passes to the constructor when the try block
\* did not complete, or load_training_state is off.
DefaultEpochMetadata ==
    [last_epoch |-> DefaultLastEpoch, validation_metrics |-> [loss |-> 0],
     description |-> ""]

\* Variant of EpochMetadata: each key is restored on its own.
EpochMetadataPerKey(checkpoint, load_training_state) ==
    [k \in DOMAIN DefaultEpochMetadata |->
        IF load_training_state /\ k \in DOMAIN checkpoint THEN checkpoint[k]
        ELSE DefaultEpochMetadata[k]]

\* last_epoch, validation_metrics and description as load hands them to
\* the constructor: the three values of the record when the training state
\* is asked for and the try block reads all three, the defaults otherwise.
EpochMetadata(checkpoint, load_training_state) ==
    IF load_training_state /\ HasEpochMetadata(checkpoint)
    THEN [k \in DOMAIN DefaultEpochMetadata |-> checkpoint[k]]
    ELSE DefaultEpochMetadata

\* Potential.load(model_name, load_path, load_training_state=...) on a path
\* that holds `file`.
load(model_name, file, load_training_state) ==
    IF file.kind # "record"
    THEN [status |-> "raised", error |-> "torch.load"]
    ELSE IF ~NameMatches(file, model_name)
    THEN [status |-> "raised", error |-> "AssertionError"]
    ELSE IF model_name \notin LoadableModels
    THEN [status |-> "raised", error |-> "NotImplementedError"]
    ELSE
    LET model == LoadStateDict(M3Gnet(model_name, file.model_args), file.model)
        optimizer ==
            IF load_training_state /\ Restorable(file, "optimizer")
            THEN [Adam("load") EXCEPT !.state = RestoredState(file, "optimizer")]
            ELSE NoObject
        scheduler ==
            IF load_training_state /\ Restorable(file, "scheduler")
            THEN [StepLR(Adam("load")) EXCEPT
                    !.state = RestoredState(file, "scheduler")]
            ELSE [name |-> "StepLR"]
        metadata == EpochMetadata(file, load_training_state)
        ema ==
            IF load_training_state /\ "ema" \in DOMAIN file
               /\ "shadow" \in DOMAIN file.ema
            THEN [shadow |-> file.ema.shadow]
            ELSE NoObject
    IN  [status |-> "ok",
         pot |-> Potential(model, optimizer, scheduler, ema, model_name,
                           metadata.last_epoch, metadata.validation_metrics,
                           metadata.description)]

\* A call of Potential.save(save_path/f) outside train_model.
save(p, f) ==
    /\ pc[p] = "idle"
    /\ files' = [files EXCEPT ![f] = Checkpoint(pot[p])]
    /\ UNCHANGED <<hist, args, pot, pc, epoch, metric, call, best_seen, loaded, run, last_op>>

\* A call of Potential.load on save_path/f; `loaded` keeps the request and
\* its result.
load_call(f, model_name, load_training_state) ==
    /\ \A p \in Procs : pc[p] = "idle"
    /\ loaded' = [path |-> f, model_name |-> model_name,
                  load_training_state |-> load_training_state,
                  result |-> load(model_name, files[f], load_training_state)]
    /\ UNCHANGED <<hist, args, pot, pc, epoch, metric, files, call, best_seen, run, last_op>>

\* The model names a Potential is constructed with.
ModelNames == LoadableModels \cup {"graphormer"}

\* The training states whose save / load round trip is examined: any model
\* kind, wrapped or not, before or after training, with default or recorded
\* epoch metadata.
CodecStates ==
    {[Potential([M3Gnet(name, ModelArgs) EXCEPT !.wrapped = wr, !.weights = w],
                NoObject, [name |-> "StepLR"], NoObject, name, e, vm, d)
         EXCEPT !.ema.shadow = sh] :
        name \in ModelNames, wr \in BOOLEAN,
        w \in {<<"init", 0>>, <<"raw", 1>>}, sh \in {<<"init", 0>>, <<"ema", 1>>},
        e \in {DefaultLastEpoch, 1},
        vm \in {[loss |-> DefaultLoss],
                MetricsDict(<<BestMetricInit, BestMetricInit - 1, 0, 0>>)},
        d \in {"", "run"}}

InitCodec ==
    /\ args \in TrainArgs({FALSE})
    /\ args.metric_name = "val_loss" /\ args.early_stop_patience = 0
    /\ args.save_checkpoint /\ args.ckpt_interval = 2
    /\ pot \in [{0} -> CodecStates]
    /\ pc = [p \in {0} |-> "idle"]
    /\ epoch = [p \in {0} |-> 0]
    /\ metric = [p \in {0} |-> <<0, 0, 0, 0>>]
    /\ call = [p \in {0} |-> NoCall]
    /\ best_seen = [p \in {0} |-> PriorBestSeen(Absent, 0)]
    /\ files = [f \in FileNames |-> Absent]
    /\ loaded = NoLoad
    /\ run = NoRun
    /\ last_op = NoOp
    /\ hist = [p \in DOMAIN pot |-> NewHist(pot[p], <<>>)]

NextCodec ==
    \/ \E p \in Procs, f \in {BestFile, LastFile} : save(p, f)
    \/ \E f \in {BestFile, LastFile}, name \in ModelNames, lts \in BOOLEAN :
          load_call(f, name, lts)

SpecCodec == InitCodec /\ [][NextCodec]_vars

\* ------------------------------------------------ a distributed restart
\* The selected validation values an earlier run may have ended on.
PriorValues == (BestMetricInit - 2)..(BestMetricInit - 1)

\* Rank 0's Potential as epoch k of an earlier distributed run left it, the
\* selected metric of that epoch, v, being the best of the run:
\* save_model_ddp has set best_metric to it.
EarlierRun(k, v, idx) ==
    [SchedulerStep(TrainPass(FreshPotential, k)) EXCEPT
        !.last_epoch = k,
        !.validation_metrics = MetricsDict([i \in 1..4 |-> v]),
        !.best_metric = v,
        !.idx = idx,
        !.rank = 0]

\* A distributed run restarted from the checkpoints of an earlier one: the
\* earlier run wrote best_model.pth and last_model.pth in its last epoch k,
\* every process has loaded last_model.pth with Potential.load and wrapped
\* the model again, and train_model is called with the same arguments.
InitRestart ==
    /\ args \in TrainArgs({TRUE})
    /\ IndexOf(args.metric_name) # -1
    /\ \E k \in 0..(MaxEpochs - 2), v \in PriorValues :
          LET record == Checkpoint(EarlierRun(k, v, IndexOf(args.metric_name)))
          IN  /\ files = [f \in FileNames |->
                            IF f \in {BestFile, LastFile} THEN record ELSE Absent]
              /\ pot = [p \in 0..(WorldSize - 1) |->
                          [load("m3gnet", record, TRUE).pot EXCEPT
                              !.model.wrapped = TRUE]]
              /\ best_seen = [p \in 0..(WorldSize - 1) |->
                                PriorBestSeen(record, IndexOf(args.metric_name))]
    /\ pc = [p \in DOMAIN pot |-> "call"]
    /\ epoch = [p \in DOMAIN pot |-> 0]
    /\ metric = [p \in DOMAIN pot |-> <<0, 0, 0, 0>>]
    /\ call = [p \in DOMAIN pot |-> NoCall]
    /\ loaded = NoLoad
    /\ run = NoRun
    /\ last_op = NoOp
    /\ hist = [p \in DOMAIN pot |-> NewHist(pot[p], <<>>)]

SpecRestart == InitRestart /\ [][NextDdp]_vars

\* ------------------------------------------- legacy and partial records
\* An entry load_state_dict rejects and that has no state_dict() either.
Malformed == [garbage |-> TRUE]

AuxKeys == {"optimizer", "scheduler", "ema"}
MetadataKeys == {"last_epoch", "validation_metrics", "description"}
EntryForms == {"dict", "object", "malformed", "missing"}

\* A Potential after one epoch of training under the name `name`.
TrainedState(name) ==
    SchedulerStep(TrainPass(
        Potential(M3Gnet(name, ModelArgs), NoObject, [name |-> "StepLR"],
                  NoObject, name, 1,
                  MetricsDict(<<BestMetricInit, BestMetricInit - 1, 0, 0>>),
                  "run"), 1))

\* The record of `self` as another version of the program may have written
\* it: form[k] tells how the entry k is stored (a state dict, the object
\* itself, something unusable, or not at all), and the metadata keys of
\* `drop` are absent.
PartialRecord(self, form, drop) ==
    LET full == Checkpoint(self)
        keys == (DOMAIN full \ drop) \ {k \in AuxKeys : form[k] = "missing"}
    IN  [k \in keys |->
            IF k \in AuxKeys /\ form[k] = "malformed" THEN Malformed
            ELSE IF k \in AuxKeys /\ form[k] = "object" THEN [object |-> full[k]]
            ELSE full[k]]

PartialRecords(self) ==
    {PartialRecord(self, form, drop) :
        form \in [AuxKeys -> EntryForms], drop \in SUBSET MetadataKeys}

\* Potential.load on a file that holds a legacy or partial record of a
\* trained state (pot[0] keeps the state the record was made from).
InitPartial ==
    /\ args \in TrainArgs({FALSE})
    /\ args.metric_name = "val_loss" /\ args.early_stop_patience = 0
    /\ args.save_checkpoint /\ args.ckpt_interval = 2
    /\ \E name \in ModelNames :
          /\ pot = [p \in {0} |-> TrainedState(name)]
          /\ \E r \in PartialRecords(TrainedState(name)) :
                files = [f \in FileNames |-> IF f = BestFile THEN r ELSE Absent]
    /\ pc = [p \in {0} |-> "idle"]
    /\ epoch = [p \in {0} |-> 0]
    /\ metric = [p \in {0} |-> <<0, 0, 0, 0>>]
    /\ call = [p \in {0} |-> NoCall]
    /\ best_seen = [p \in {0} |-> PriorBestSeen(Absent, 0)]
    /\ loaded = NoLoad
    /\ run = NoRun
    /\ last_op = NoOp
    /\ hist = [p \in DOMAIN pot |-> NewHist(pot[p], <<>>)]

NextPartial ==
    \E f \in {BestFile, LastFile}, name \in ModelNames, lts \in BOOLEAN :
        load_call(f, name, lts)

SpecPartial == InitPartial /\ [][NextPartial]_vars

\* ------------------------------------------------------ forward's output
\* The model kinds the engine does not implement.
UnsupportedModels == {"graphormer", "geomformer"}

NotSupported == [status |-> "raised", error |-> "NotImplementedError"]

\* The value of a key whose gradient came back as None.
None == "None"

\* What torch.autograd.grad hands back for one input: a tensor, or None.
GradValues == {"tensor", None}

\* Variant of ForwardOutput: the gradients are stored without the test
\* `is not None`.
ForwardOutputUnguarded(include_forces, include_stresses, force_grad, stress_grad) ==
    [k \in {"total_energy"}
           \cup (IF include_forces THEN {"forces"} ELSE {})
           \cup (IF include_forces /\ include_stresses THEN {"stresses"} ELSE {})
       |-> IF k = "forces" THEN force_grad
           ELSE IF k = "stresses" THEN stress_grad ELSE "tensor"]

\* The `output` dictionary forward builds: the energy always, the forces
\* when include_forces is True and their gradient is not None, the stresses
\* when both flags are True and their gradient is not None.
ForwardOutput(include_forces, include_stresses, force_grad, stress_grad) ==
    [k \in {"total_energy"}
           \cup (IF include_forces /\ force_grad # None THEN {"forces"} ELSE {})
           \cup (IF include_forces /\ include_stresses /\ stress_grad # None
                 THEN {"stresses"} ELSE {})
       |-> IF k = "forces" THEN force_grad
           ELSE IF k = "stresses" THEN stress_grad ELSE "tensor"]

\* The dictionary a caller holds after forward: the keys of the output,
\* with the predicted values.
Result(output, pred) == [k \in DOMAIN output |-> pred[k]]

\* ---------------------------------------------------------------- loss_calc
\* Tensor values are exact fractions <<numerator, denominator>> with a
\* positive denominator, kept in lowest terms.
RECURSIVE Gcd(_, _)
Gcd(a, b) == IF b = 0 THEN a ELSE Gcd(b, a % b)

Abs(a) == IF a < 0 THEN -a ELSE a

Frac(a, b) ==
    LET g == Gcd(Abs(a), b) IN <<a \div g, b \div g>>

Plus(x, y) == Frac(x[1] * y[2] + y[1] * x[2], x[2] * y[2])

Minus(x, y) == Frac(x[1] * y[2] - y[1] * x[2], x[2] * y[2])

Times(x, y) == Frac(x[1] * y[1], x[2] * y[2])

Zero == Frac(0, 1)

\* The `loss` objects considered: torch.nn.MSELoss (the default of
\* train_model) and torch.nn.L1Loss, on one-element tensors.
LossFns == {"MSELoss", "L1Loss"}

L1Loss(pred, gt) == LET d == Minus(pred, gt) IN Frac(Abs(d[1]), d[2])

Loss(loss, pred, gt) ==
    IF loss = "MSELoss" THEN Times(Minus(pred, gt), Minus(pred, gt))
    ELSE L1Loss(pred, gt)

KeyError == [status |-> "raised", error |-> "KeyError"]

\* Variant of LossCalc: the force term is divided by the atom count and
\* the stress weight is applied to the stress MAE as well.
LossCalcPerAtomForces(model_name, graph_batch, result, loss, include_energy, include_forces, include_stresses, loss_f, loss_s) ==
    IF model_name \in {"graphormer", "geomformer"}
    THEN [status |-> "raised", error |-> "NotImplementedError"]
    ELSE IF include_forces /\ "forces" \notin DOMAIN result THEN KeyError
    ELSE IF include_stresses /\ "stresses" \notin DOMAIN result THEN KeyError
    ELSE
    LET e_gt == Frac(graph_batch.energy, graph_batch.num_atoms)
        e_pred == Frac(result["total_energy"], graph_batch.num_atoms)
        f_gt == Frac(graph_batch.forces, graph_batch.num_atoms)
        s_gt == Frac(graph_batch.stress, 1)
        l0 == Zero
        l1 == IF include_energy THEN Plus(l0, Loss(loss, e_pred, e_gt)) ELSE l0
        l2 == IF include_forces
              THEN Plus(l1, Times(Loss(loss,
                       Frac(result["forces"], graph_batch.num_atoms), f_gt), loss_f))
              ELSE l1
        l3 == IF include_stresses
              THEN Plus(l2, Times(Loss(loss, Frac(result["stresses"], 1), s_gt),
                                  loss_s))
              ELSE l2
    IN  [status |-> "returned",
         loss_ |-> l3,
         e_mae |-> IF include_energy THEN L1Loss(e_pred, e_gt) ELSE Zero,
         f_mae |-> IF include_forces
                   THEN L1Loss(Frac(result["forces"], graph_batch.num_atoms), f_gt)
                   ELSE Zero,
         s_mae |-> IF include_stresses
                   THEN Times(L1Loss(Frac(result["stresses"], 1), s_gt), loss_s)
                   ELSE Zero]

\* Potential.loss_calc on a batch holding one structure: the energy term is
\* taken per atom, the force and stress terms on the raw values and scaled
\* by loss_f and loss_s; the three MAE values are L1Loss of the same
\* quantities and stay 0.0 for a quantity that is not included.  Reading a
\* key that `result` does not hold is a KeyError.
LossCalc(model_name, graph_batch, result, loss, include_energy, include_forces, include_stresses, loss_f, loss_s) ==
    IF model_name \in {"graphormer", "geomformer"}
    THEN [status |-> "raised", error |-> "NotImplementedError"]
    ELSE IF include_forces /\ "forces" \notin DOMAIN result THEN KeyError
    ELSE IF include_stresses /\ "stresses" \notin DOMAIN result THEN KeyError
    ELSE
    LET e_gt == Frac(graph_batch.energy, graph_batch.num_atoms)
        e_pred == Frac(result["total_energy"], graph_batch.num_atoms)
        f_gt == Frac(graph_batch.forces, 1)
        s_gt == Frac(graph_batch.stress, 1)
        l0 == Zero
        l1 == IF include_energy THEN Plus(l0, Loss(loss, e_pred, e_gt)) ELSE l0
        l2 == IF include_forces
              THEN Plus(l1, Times(Loss(loss, Frac(result["forces"], 1), f_gt),
                                  loss_f))
              ELSE l1
        l3 == IF include_stresses
              THEN Plus(l2, Times(Loss(loss, Frac(result["stresses"], 1), s_gt),
                                  loss_s))
              ELSE l2
    IN  [status |-> "returned",
         loss_ |-> l3,
         e_mae |-> IF include_energy THEN L1Loss(e_pred, e_gt) ELSE Zero,
         f_mae |-> IF include_forces
                   THEN L1Loss(Frac(result["forces"], 1), f_gt) ELSE Zero,
         s_mae |-> IF include_stresses
                   THEN L1Loss(Frac(result["stresses"], 1), s_gt) ELSE Zero]

\* ------------------------------ train_one_epoch, train_one_epoch_multi_head
\* dataloader_len after the loop that accumulates it: the running sums.
RECURSIVE CumulativeLen(_)
CumulativeLen(lens) ==
    IF Len(lens) <= 1 THEN lens
    ELSE LET head == CumulativeLen(SubSeq(lens, 1, Len(lens) - 1))
         IN  Append(head, head[Len(head)] + lens[Len(lens)])

\* Variant of DatasetIdx: idx <= bound in place of idx < bound.
DatasetIdxInclusive(idx, dataloader_len) ==
    (CHOOSE d \in 1..Len(dataloader_len) :
        /\ idx <= dataloader_len[d]
        /\ \A c \in 1..(d - 1) : ~(idx <= dataloader_len[c])) - 1

\* for dataset_idx, bound in enumerate(dataloader_len): if idx < bound: break
\* -- the (0-based) position of the first cumulative bound above idx.
DatasetIdx(idx, dataloader_len) ==
    (CHOOSE d \in 1..Len(dataloader_len) :
        /\ idx < dataloader_len[d]
        /\ \A c \in 1..(d - 1) : ~(idx < dataloader_len[c])) - 1

\* The steps of a training batch after the loss is known, in the order the
\* loop body makes them.
TrainStepsStepBeforeClip ==
    <<"zero_grad", "backward", "step", "clip_grad_norm_", "ema.update">>

TrainSteps ==
    <<"zero_grad", "backward", "clip_grad_norm_", "step", "ema.update">>

\* What one step does to s = [pot, grad]: grad is the norm of the gradient
\* the parameters hold.  backward adds the gradient of the batch's loss,
\* clip_grad_norm_ scales the total norm down to MaxNorm, optimizer.step()
\* moves the weights along the gradient, ema.update() recomputes the shadow
\* from the weights.
ApplyStep(step, s) ==
    IF step = "zero_grad" THEN [s EXCEPT !.grad = 0]
    ELSE IF step = "backward" THEN [s EXCEPT !.grad = @ + GradNorm]
    ELSE IF step = "clip_grad_norm_"
    THEN [s EXCEPT !.grad = IF @ > MaxNorm THEN MaxNorm ELSE @]
    ELSE IF step = "step"
    THEN [s EXCEPT !.pot.model.weights = <<"raw", @[2] + s.grad>>,
                   !.pot.optimizer.state = @ + 1]
    ELSE [s EXCEPT !.pot.ema.shadow = <<"ema", s.pot.model.weights[2]>>]

RECURSIVE ApplySteps(_, _)
ApplySteps(steps, s) ==
    IF steps = <<>> THEN s
    ELSE ApplySteps(Tail(steps), ApplyStep(Head(steps), s))

\* One training batch: zero_grad ... ema.update on the Potential.
TrainStep(self) == ApplySteps(TrainSteps, [pot |-> self, grad |-> 0]).pot

\* self.model.forward(input, dataset_idx): the predictions depend on the
\* weights the model holds.
ModelForward(weights) ==
    [k \in {"total_energy", "forces", "stresses"} |->
        IF k = "forces" THEN (weights[2] + 1) % (MaxValue + 1)
        ELSE weights[2] % (MaxValue + 1)]

\* The body of the batch loop from the forward call on: in val mode the
\* forward runs inside the EMA block, then loss_calc; in train mode the
\* training steps follow.  `used` is the weights the model evaluation ran
\* with, `steps` the calls made, `values` what loss_calc returned.
BatchStep(self, grad, mode, include, graph_batch) ==
    LET inside == IF mode = "val" THEN average_parameters(self) ELSE self
        raises == self.model_name \in UnsupportedModels
        result == Result(ForwardOutput(include[2], include[3], "tensor", "tensor"),
                         ModelForward(inside.model.weights))
        evaluated == IF mode = "val" THEN restore(inside, self.model.weights)
                     ELSE self
        values == LossCalc(self.model_name, graph_batch, result, "MSELoss",
                           include[1], include[2], include[3],
                           Frac(1, 1), Frac(1, 10))
        trained == ApplySteps(TrainSteps, [pot |-> evaluated, grad |-> grad])
    IN  IF raises
        THEN [used |-> inside.model.weights, raises |-> TRUE,
              error |-> "NotImplementedError", pot |-> evaluated,
              grad |-> grad, steps |-> <<"forward">>, values |-> values]
        ELSE IF values.status = "raised"
        THEN [used |-> inside.model.weights, raises |-> TRUE,
              error |-> values.error, pot |-> evaluated,
              grad |-> grad, steps |-> <<"forward", "loss_calc">>,
              values |-> values]
        ELSE IF mode = "train"
        THEN [used |-> inside.model.weights, raises |-> FALSE, error |-> "",
              pot |-> trained.pot, grad |-> trained.grad,
              steps |-> <<"forward", "loss_calc">> \o TrainSteps \o <<"update">>,
              values |-> values]
        ELSE [used |-> inside.model.weights, raises |-> FALSE, error |-> "",
              pot |-> evaluated, grad |-> grad,
              steps |-> <<"forward", "loss_calc", "update">>,
              values |-> values]

\* MeanMetric(): the running sum and the number of updates; compute() of a
\* metric that was never updated is nan.
NaN == <<0, 0>>

MeanMetric == [mean_value |-> Zero, weight |-> 0]

Update(m, v) == [mean_value |-> Plus(m.mean_value, v), weight |-> m.weight + 1]

Compute(m) ==
    IF m.weight = 0 THEN NaN ELSE Times(m.mean_value, Frac(1, m.weight))

\* Python's + on floats.
Add(x, y) == IF x = NaN \/ y = NaN THEN NaN ELSE Plus(x, y)

\* The four metrics of a pass (of one data set in a multi-head pass).
Metrics ==
    [loss_avg |-> MeanMetric, train_e_mae |-> MeanMetric,
     train_f_mae |-> MeanMetric, train_s_mae |-> MeanMetric]

\* The updates that follow a batch: the loss always, each MAE when its
\* quantity is included.
UpdateMetrics(m, include, values) ==
    [loss_avg |-> Update(m.loss_avg, values.loss_),
     train_e_mae |-> IF include[1] THEN Update(m.train_e_mae, values.e_mae)
                     ELSE m.train_e_mae,
     train_f_mae |-> IF include[2] THEN Update(m.train_f_mae, values.f_mae)
                     ELSE m.train_f_mae,
     train_s_mae |-> IF include[3] THEN Update(m.train_s_mae, values.s_mae)
                     ELSE m.train_s_mae]

\* The tuple train_one_epoch computes after its loop.
EpochSummary(m, include) ==
    <<Compute(m.loss_avg),
      IF include[1] THEN Compute(m.train_e_mae) ELSE Zero,
      IF include[2] THEN Compute(m.train_f_mae) ELSE Zero,
      IF include[3] THEN Compute(m.train_s_mae) ELSE Zero>>

\* Variant of MultiHeadSummary: QM9 is skipped for every quantity.
RECURSIVE MultiHeadSummarySkipAll(_, _, _)
MultiHeadSummarySkipAll(metrics, dataset_name_list, include) ==
    IF dataset_name_list = <<>> THEN <<Zero, Zero, Zero, Zero>>
    ELSE LET n == Len(dataset_name_list)
             dataset_name == dataset_name_list[n]
             sofar == MultiHeadSummarySkipAll(metrics,
                          SubSeq(dataset_name_list, 1, n - 1), include)
             m == metrics[dataset_name]
         IN  IF dataset_name = "QM9" THEN sofar
             ELSE
             <<Add(sofar[1], Compute(m.loss_avg)),
               IF include[1] THEN Add(sofar[2], Compute(m.train_e_mae))
               ELSE sofar[2],
               IF include[2] THEN Add(sofar[3], Compute(m.train_f_mae))
               ELSE sofar[3],
               IF include[3] THEN Add(sofar[4], Compute(m.train_s_mae))
               ELSE sofar[4]>>

\* The sums train_one_epoch_multi_head builds in `for dataset_name in
\* dataset_name_list`: loss_all, e_mae, f_mae, s_mae.
RECURSIVE MultiHeadSummary(_, _, _)
MultiHeadSummary(metrics, dataset_name_list, include) ==
    IF dataset_name_list = <<>> THEN <<Zero, Zero, Zero, Zero>>
    ELSE LET n == Len(dataset_name_list)
             dataset_name == dataset_name_list[n]
             sofar == MultiHeadSummary(metrics,
                          SubSeq(dataset_name_list, 1, n - 1), include)
             m == metrics[dataset_name]
         IN  <<Add(sofar[1], Compute(m.loss_avg)),
               IF include[1] THEN Add(sofar[2], Compute(m.train_e_mae))
               ELSE sofar[2],
               IF include[2] /\ dataset_name # "QM9"
               THEN Add(sofar[3], Compute(m.train_f_mae)) ELSE sofar[3],
               IF include[3] THEN Add(sofar[4], Compute(m.train_s_mae))
               ELSE sofar[4]>>

\* Entry of train_one_epoch_multi_head with the data sources `data` (one
\* sequence of batches per source): the metrics, the iterators, the
\* cumulative lengths and the shuffled index list.  random.shuffle may give
\* any order; `idx_list` holds the indices not visited yet and the loop
\* takes them in any order.
train_one_epoch_multi_head_enter(p, data, dataset_name_list, mode, include) ==
    LET lens == [d \in 1..Len(data) |-> Len(data[d])]
    IN
    /\ pc[p] = "idle"
    /\ run = NoRun
    /\ run' = IF Len(lens) = 0
              THEN [kind |-> "multi_head", mode |-> mode, lens |-> lens,
                    status |-> "raised", error |-> "IndexError",
                    log |-> <<>>, before |-> pot[p]]
              ELSE [kind |-> "multi_head", mode |-> mode, lens |-> lens,
                    data |-> data, include |-> include,
                    dataset_name_list |-> dataset_name_list,
                    metrics |-> [name \in {dataset_name_list[d] :
                                             d \in 1..Len(dataset_name_list)}
                                   |-> Metrics],
                    dataloader_len |-> CumulativeLen(lens),
                    idx_list |-> 0..(CumulativeLen(lens)[Len(lens)] - 1),
                    dataloader_iter |-> [d \in 1..Len(lens) |-> 0],
                    grad |-> 0, steps |-> <<>>,
                    status |-> "running", error |-> "",
                    log |-> <<>>, before |-> pot[p]]
    /\ UNCHANGED <<hist, args, pot, pc, epoch, metric, files, call, best_seen, loaded, last_op>>

\* One iteration of `for idx in idx_list`: resolve the source, draw its next
\* batch (StopIteration when the iterator is exhausted), run the batch and
\* update the metrics of the source's data set.
train_one_epoch_multi_head_batch(p) ==
    /\ pc[p] = "idle"
    /\ run # NoRun /\ run.kind = "multi_head" /\ run.status = "running"
    /\ \E idx \in run.idx_list :
          LET dataset_idx == DatasetIdx(idx, run.dataloader_len)
              item == run.dataloader_iter[dataset_idx + 1]
              dataset_name == run.dataset_name_list[dataset_idx + 1]
          IN  IF item >= run.lens[dataset_idx + 1]
              THEN /\ run' = [run EXCEPT !.status = "raised",
                                         !.error = "StopIteration"]
                   /\ UNCHANGED pot
              ELSE LET step == BatchStep(pot[p], run.grad, run.mode, run.include,
                                         run.data[dataset_idx + 1][item + 1])
                   IN
                   /\ pot' = [pot EXCEPT ![p] = step.pot]
                   /\ IF step.raises
                      THEN run' = [run EXCEPT
                                      !.dataloader_iter[dataset_idx + 1] = @ + 1,
                                      !.steps = @ \o step.steps,
                                      !.status = "raised",
                                      !.error = step.error]
                      ELSE run' = [run EXCEPT
                                      !.idx_list = @ \ {idx},
                                      !.dataloader_iter[dataset_idx + 1] = @ + 1,
                                      !.grad = step.grad,
                                      !.steps = @ \o step.steps,
                                      !.metrics[dataset_name] =
                                          UpdateMetrics(@, run.include, step.values),
                                      !.log = Append(@,
                                          [dataset_idx |-> dataset_idx,
                                           item |-> item, used |-> step.used,
                                           values |-> step.values])]
    /\ UNCHANGED <<hist, args, pc, epoch, metric, files, call, best_seen, loaded, last_op>>

\* idx_list is exhausted: the sums over the data sets are built and printed
\* (the line printed per data set reads train_e_mae, which is bound only
\* when include_energy is set), and the pass returns them in val mode.
train_one_epoch_multi_head_return(p) ==
    /\ pc[p] = "idle"
    /\ run # NoRun /\ run.kind = "multi_head" /\ run.status = "running"
    /\ run.idx_list = {}
    /\ run' = IF ~run.include[1]
              THEN [run EXCEPT !.status = "raised",
                               !.error = "UnboundLocalError"]
              ELSE [run EXCEPT !.status = "done"] @@
                   [result |-> IF run.mode = "val"
                               THEN MultiHeadSummary(run.metrics,
                                        run.dataset_name_list, run.include)
                               ELSE None]
    /\ UNCHANGED <<hist, args, pot, pc, epoch, metric, files, call, best_seen, loaded, last_op>>

\* Entry of train_one_epoch on a dataloader holding the batches `data`.
train_one_epoch_enter(p, data, mode, include) ==
    /\ pc[p] = "idle"
    /\ run = NoRun
    /\ run' = [kind |-> "single", mode |-> mode, lens |-> <<Len(data)>>,
               data |-> data, include |-> include, metrics |-> Metrics,
               grad |-> 0, steps |-> <<>>,
               batch_idx |-> 0, status |-> "running", error |-> "",
               log |-> <<>>, before |-> pot[p]]
    /\ UNCHANGED <<hist, args, pot, pc, epoch, metric, files, call, best_seen, loaded, last_op>>

\* One iteration of `for batch_idx, graph_batch in enumerate(dataloader)`:
\* an unsupported model raises before the forward call.
train_one_epoch_batch(p) ==
    /\ pc[p] = "idle"
    /\ run # NoRun /\ run.kind = "single" /\ run.status = "running"
    /\ run.batch_idx < run.lens[1]
    /\ LET step == BatchStep(pot[p], run.grad, run.mode, run.include,
                             run.data[run.batch_idx + 1])
       IN  IF pot[p].model_name \in UnsupportedModels
           THEN /\ run' = [run EXCEPT !.status = "raised",
                                      !.error = "NotImplementedError"]
                /\ UNCHANGED pot
           ELSE /\ pot' = [pot EXCEPT ![p] = step.pot]
                /\ IF step.raises
                   THEN run' = [run EXCEPT !.steps = @ \o step.steps,
                                           !.status = "raised",
                                           !.error = step.error]
                   ELSE run' = [run EXCEPT
                                   !.batch_idx = @ + 1,
                                   !.grad = step.grad,
                                   !.steps = @ \o step.steps,
                                   !.metrics =
                                       UpdateMetrics(@, run.include, step.values),
                                   !.log = Append(@, [dataset_idx |-> 0,
                                                      item |-> run.batch_idx,
                                                      used |-> step.used,
                                                      values |-> step.values])]
    /\ UNCHANGED <<hist, args, pc, epoch, metric, files, call, best_seen, loaded, last_op>>

\* The dataloader is exhausted: the metrics are computed and the pass
\* returns them in val mode.
train_one_epoch_return(p) ==
    /\ pc[p] = "idle"
    /\ run # NoRun /\ run.kind = "single" /\ run.status = "running"
    /\ run.batch_idx = run.lens[1]
    /\ run' = [run EXCEPT !.status = "done"] @@
              [result |-> IF run.mode = "val"
                          THEN EpochSummary(run.metrics, run.include)
                          ELSE None]
    /\ UNCHANGED <<hist, args, pot, pc, epoch, metric, files, call, best_seen, loaded, last_op>>

\* A data source of n batches: two-atom structures whose labels differ from
\* batch to batch, starting from `base`.
SourceData(base, n) ==
    [i \in 1..n |->
        [energy |-> (base + i) % (MaxValue + 1),
         forces |-> (base + i + 1) % (MaxValue + 1),
         stress |-> base % (MaxValue + 1),
         num_atoms |-> MaxAtoms]]

\* The lists of data sources considered, given by their lengths.
SourceLens == UNION {[1..k -> 0..MaxBatches] : k \in 0..MaxSources}

\* The names of the data sets of the pre-trained multi-head model.
DatasetNames == <<"Transition1x", "MD17", "MPF21", "QM9", "HME21", "OC20">>

Modes == {"train", "val"}

\* include_energy, include_forces, include_stresses as train_model has them
\* by default.
DefaultInclude == <<TRUE, FALSE, FALSE>>

\* One pass over the data by a trained Potential of any model name.
InitPass ==
    /\ args \in TrainArgs({FALSE})
    /\ args.metric_name = "val_loss" /\ args.early_stop_patience = 0
    /\ args.save_checkpoint /\ args.ckpt_interval = 2
    /\ \E name \in ModelNames : pot = [p \in {0} |-> TrainedState(name)]
    /\ pc = [p \in {0} |-> "idle"]
    /\ epoch = [p \in {0} |-> 0]
    /\ metric = [p \in {0} |-> <<0, 0, 0, 0>>]
    /\ call = [p \in {0} |-> NoCall]
    /\ best_seen = [p \in {0} |-> PriorBestSeen(Absent, 0)]
    /\ files = [f \in FileNames |-> Absent]
    /\ loaded = NoLoad
    /\ run = NoRun
    /\ last_op = NoOp
    /\ hist = [p \in DOMAIN pot |-> NewHist(pot[p], <<>>)]

NextPass ==
    \E p \in Procs :
        \/ \E lens \in SourceLens, mode \in Modes :
              train_one_epoch_multi_head_enter(p,
                  [d \in 1..Len(lens) |-> SourceData(d, lens[d])],
                  SubSeq(DatasetNames, 1, Len(lens)), mode, DefaultInclude)
        \/ train_one_epoch_multi_head_batch(p)
        \/ train_one_epoch_multi_head_return(p)
        \/ \E n \in 0..MaxBatches, mode \in Modes :
              train_one_epoch_enter(p, SourceData(0, n), mode, DefaultInclude)
        \/ train_one_epoch_batch(p)
        \/ train_one_epoch_return(p)

SpecPass == InitPass /\ [][NextPass]_vars

\* A validation or training pass for every selection of quantities, over
\* two data sets one of which may be QM9.
NextMetrics ==
    \E p \in Procs :
        \/ \E lens \in [1..2 -> 0..MaxBatches], first \in {1, 3, 4},
              mode \in Modes, include \in BOOLEAN \X BOOLEAN \X BOOLEAN :
              train_one_epoch_multi_head_enter(p,
                  [d \in 1..2 |-> SourceData(d, lens[d])],
                  SubSeq(DatasetNames, first, first + 1), mode, include)
        \/ train_one_epoch_multi_head_batch(p)
        \/ train_one_epoch_multi_head_return(p)
        \/ \E n \in 0..MaxBatches, mode \in Modes,
              include \in BOOLEAN \X BOOLEAN \X BOOLEAN :
              train_one_epoch_enter(p, SourceData(0, n), mode, include)
        \/ train_one_epoch_batch(p)
        \/ train_one_epoch_return(p)

SpecMetrics == InitPass /\ [][NextMetrics]_vars

\* ------------------------------------------------- single-step operations
\* Potential.forward: an unsupported model raises; otherwise the positions
\* are marked differentiable when forces are asked for, the strain is
\* attached to the cell when stresses are, and the output is built.
forward(p, include_forces, include_stresses, force_grad, stress_grad) ==
    /\ pc[p] = "idle"
    /\ last_op' =
          [op |-> "forward", model_name |-> pot[p].model_name,
           include_forces |-> include_forces,
           include_stresses |-> include_stresses,
           force_grad |-> force_grad, stress_grad |-> stress_grad,
           result |->
             IF pot[p].model_name \in UnsupportedModels THEN NotSupported
             ELSE [status |-> "returned",
                   atom_pos_requires_grad |-> include_forces,
                   cell_strained |-> include_stresses,
                   output |-> ForwardOutput(include_forces, include_stresses,
                                            force_grad, stress_grad)]]
    /\ UNCHANGED <<hist, args, pot, pc, epoch, metric, files, call, best_seen, loaded, run>>

\* Potential.loss_calc(graph_batch, result, loss, include_energy,
\* include_forces, include_stresses, loss_f, loss_s)
loss_calc(p, graph_batch, result, loss, include, loss_f, loss_s) ==
    /\ pc[p] = "idle"
    /\ last_op' =
          [op |-> "loss_calc", model_name |-> pot[p].model_name,
           graph_batch |-> graph_batch, output |-> result, loss |-> loss,
           include_energy |-> include[1], include_forces |-> include[2],
           include_stresses |-> include[3],
           loss_f |-> loss_f, loss_s |-> loss_s,
           result |-> LossCalc(pot[p].model_name, graph_batch, result, loss,
                               include[1], include[2], include[3],
                               loss_f, loss_s)]
    /\ UNCHANGED <<hist, args, pot, pc, epoch, metric, files, call, best_seen, loaded, run>>

\* Potential.get_properties: the tuple returned holds the energy, then the
\* forces, then the stresses; with stresses but no forces asked for no
\* branch returns and the result is None.
get_properties(p, include_forces, include_stresses, force_grad, stress_grad) ==
    /\ pc[p] = "idle"
    /\ last_op' =
          [op |-> "get_properties", model_name |-> pot[p].model_name,
           include_forces |-> include_forces,
           include_stresses |-> include_stresses,
           force_grad |-> force_grad, stress_grad |-> stress_grad,
           output |-> ForwardOutput(include_forces, include_stresses,
                                    force_grad, stress_grad),
           result |->
             IF pot[p].model_name \in UnsupportedModels THEN NotSupported
             ELSE IF \E k \in (IF include_forces THEN {"forces"} ELSE {})
                         \cup (IF include_forces /\ include_stresses
                               THEN {"stresses"} ELSE {}) :
                        k \notin DOMAIN ForwardOutput(include_forces,
                                 include_stresses, force_grad, stress_grad)
             THEN KeyError
             ELSE [status |-> "returned",
                   value |->
                     IF ~include_forces /\ ~include_stresses
                     THEN <<"total_energy">>
                     ELSE IF include_forces /\ ~include_stresses
                     THEN <<"total_energy", "forces">>
                     ELSE IF include_forces /\ include_stresses
                     THEN <<"total_energy", "forces", "stresses">>
                     ELSE <<None>>]]
    /\ UNCHANGED <<hist, args, pot, pc, epoch, metric, files, call, best_seen, loaded, run>>

\* Potential.predict_properties on a dataloader of n batches: the model
\* name is tested inside the loop over the batches.
predict_properties(p, n, include_forces, include_stresses, force_grad, stress_grad) ==
    /\ pc[p] = "idle"
    /\ last_op' =
          [op |-> "predict_properties", model_name |-> pot[p].model_name,
           batches |-> n,
           include_forces |-> include_forces,
           include_stresses |-> include_stresses,
           output |-> ForwardOutput(include_forces, include_stresses,
                                    force_grad, stress_grad),
           result |-> IF n > 0 /\ pot[p].model_name \in UnsupportedModels
                      THEN NotSupported
                      ELSE IF /\ n > 0
                              /\ \E k \in (IF include_forces THEN {"forces"} ELSE {})
                                    \cup (IF include_stresses THEN {"stresses"}
                                          ELSE {}) :
                                    k \notin DOMAIN ForwardOutput(include_forces,
                                        include_stresses, force_grad, stress_grad)
                      THEN KeyError
                      ELSE [status |-> "returned", energies |-> n,
                            forces |-> IF include_forces THEN n ELSE 0,
                            stresses |-> IF include_stresses THEN n ELSE 0]]
    /\ UNCHANGED <<hist, args, pot, pc, epoch, metric, files, call, best_seen, loaded, run>>

\* Potential.load(model_name) with load_path None: only m3gnet has a
\* pre-trained file to fall back on.
load_pretrained(model_name) ==
    /\ \A p \in Procs : pc[p] = "idle"
    /\ last_op' =
          [op |-> "load", model_name |-> model_name,
           result |-> IF model_name = "m3gnet" THEN [status |-> "returned"]
                      ELSE NotSupported]
    /\ UNCHANGED <<hist, args, pot, pc, epoch, metric, files, call, best_seen, loaded, run>>

\* batch_to_dict(graph_batch, model_type)
batch_to_dict(model_type) ==
    /\ \A p \in Procs : pc[p] = "idle"
    /\ last_op' =
          [op |-> "batch_to_dict", model_name |-> model_type,
           result |-> IF model_type = "m3gnet" THEN [status |-> "returned"]
                      ELSE NotSupported]
    /\ UNCHANGED <<hist, args, pot, pc, epoch, metric, files, call, best_seen, loaded, run>>

\* DeepCalculator.calculate(atoms): the dataloader is built from the one
\* structure and the model name is tested on its batch; forward is called
\* with include_forces=True and include_stresses=self.compute_stress, the
\* forces are read always and the stresses when compute_stress is set.
calculate(p, compute_stress, force_grad, stress_grad) ==
    /\ pc[p] = "idle"
    /\ last_op' =
          [op |-> "calculate", model_name |-> pot[p].model_name,
           include_forces |-> TRUE,
           include_stresses |-> compute_stress,
           output |-> ForwardOutput(TRUE, compute_stress, force_grad, stress_grad),
           result |-> IF pot[p].model_name \in UnsupportedModels
                      THEN NotSupported
                      ELSE IF \E k \in {"forces"}
                                  \cup (IF compute_stress THEN {"stresses"}
                                        ELSE {}) :
                                 k \notin DOMAIN ForwardOutput(TRUE,
                                     compute_stress, force_grad, stress_grad)
                      THEN KeyError
                      ELSE [status |-> "returned",
                            results |-> {"energy", "free_energy", "forces"}
                                \cup (IF compute_stress THEN {"stress"} ELSE {})]]
    /\ UNCHANGED <<hist, args, pot, pc, epoch, metric, files, call, best_seen, loaded, run>>

\* The values of finetune_layers considered.
FinetuneLayers == (-2)..(MaxLayers + 1)

\* Potential.freeze_reset_model on a model with n encoder layers
\* (has_node_head tells whether self.model.node_head exists at all): -1
\* leaves every layer trainable, a count in 0..n-1 freezes all but the last
\* layers and the heads, anything else is a ValueError.  The length is only
\* read when finetune_layers >= 0.
FreezeResetModel(finetune_layers, has_node_head, n) ==
    IF finetune_layers = -1
    THEN [status |-> "returned", trainable |-> "all"]
    ELSE IF finetune_layers < 0
    THEN [status |-> "raised", error |-> "ValueError"]
    ELSE IF ~has_node_head
    THEN [status |-> "raised", error |-> "AttributeError"]
    ELSE IF finetune_layers < n
    THEN [status |-> "returned", trainable |-> "last_layers_and_heads"]
    ELSE [status |-> "raised", error |-> "ValueError"]

freeze_reset_model(p, finetune_layers, has_node_head, n) ==
    /\ pc[p] = "idle"
    /\ last_op' =
          [op |-> "freeze_reset_model", model_name |-> pot[p].model_name,
           finetune_layers |-> finetune_layers,
           has_node_head |-> has_node_head, layers |-> n,
           result |-> FreezeResetModel(finetune_layers, has_node_head, n)]
    /\ UNCHANGED <<hist, args, pot, pc, epoch, metric, files, call, best_seen, loaded, run>>

\* Variant of FinetuneReturnsEarly: no model name is turned away.
FinetuneReturnsEarlyNever(self) == FALSE

\* if self.model_name not in ["graphormer", "geomformer"]: ... return
FinetuneReturnsEarly(self) == self.model_name \notin UnsupportedModels

\* The fine-tuning fields of a Potential whose model has not been put in
\* fine-tuning mode: those of its model and use_finetune_label_loss.
NotFinetuned ==
    [finetune_mode |-> FALSE, finetune_head |-> None,
     finetune_task_mean |-> 0, finetune_task_std |-> 1,
     requires_grad |-> "all", head_reset |-> FALSE,
     use_finetune_label_loss |-> FALSE]

\* The keyword arguments of finetune_mode considered: the defaults, and a
\* call that gives a head, a task mean and std, and sets both flags.
FinetuneKwargs ==
    {[finetune_head |-> None, reset_head_for_finetune |-> FALSE,
      finetune_task_mean |-> 0, finetune_task_std |-> 1,
      use_finetune_label_loss |-> FALSE],
     [finetune_head |-> "head", reset_head_for_finetune |-> TRUE,
      finetune_task_mean |-> 1, finetune_task_std |-> 2,
      use_finetune_label_loss |-> TRUE]}

\* The fine-tuning fields as finetune_mode leaves them: the four fields of
\* the model are assigned first, then freeze_reset_model sets the
\* requires_grad flags (and resets the head when asked to), then
\* use_finetune_label_loss is assigned; an exception of freeze_reset_model
\* ends the call where it is raised.
FinetuneFields(self, state, finetune_layers, kw, has_node_head, n) ==
    IF FinetuneReturnsEarly(self) THEN state
    ELSE
    LET set == [state EXCEPT
                  !.finetune_mode = TRUE,
                  !.finetune_head = kw.finetune_head,
                  !.finetune_task_mean = kw.finetune_task_mean,
                  !.finetune_task_std = kw.finetune_task_std]
        r == FreezeResetModel(finetune_layers, has_node_head, n)
    IN  IF r.status = "raised" THEN set
        ELSE [set EXCEPT
                !.requires_grad = IF r.trainable = "all" THEN @ ELSE r.trainable,
                !.head_reset = @ \/ (r.trainable # "all"
                                     /\ kw.reset_head_for_finetune),
                !.use_finetune_label_loss = kw.use_finetune_label_loss]

\* Potential.finetune_mode: for any model name but graphormer and
\* geomformer it prints a notice and returns; otherwise it sets the
\* fine-tuning fields of the model and calls freeze_reset_model.
finetune_mode(p, finetune_layers, kw, has_node_head, n) ==
    /\ pc[p] = "idle"
    /\ last_op' =
          [op |-> "finetune_mode", model_name |-> pot[p].model_name,
           finetune_layers |-> finetune_layers, kwargs |-> kw,
           has_node_head |-> has_node_head, layers |-> n,
           before |-> NotFinetuned,
           after |-> FinetuneFields(pot[p], NotFinetuned, finetune_layers, kw,
                                    has_node_head, n),
           result |-> IF FinetuneReturnsEarly(pot[p])
                      THEN [status |-> "returned", trainable |-> "all"]
                      ELSE FreezeResetModel(finetune_layers, has_node_head, n)]
    /\ UNCHANGED <<hist, args, pot, pc, epoch, metric, files, call, best_seen, loaded, run>>

\* The labelled batches and predictions considered: one structure of
\* num_atoms atoms with one force and one stress component.
GraphBatches ==
    [energy : 0..MaxValue, forces : 0..MaxValue, stress : 0..MaxValue,
     num_atoms : 1..MaxAtoms]

Predictions ==
    [{"total_energy", "forces", "stresses"} -> 0..MaxValue]

UnitBatch == [energy |-> 0, forces |-> 0, stress |-> 0, num_atoms |-> MaxAtoms]

UnitPrediction == [k \in {"total_energy", "forces", "stresses"} |-> 1]

\* The weights loss_f and loss_s considered; 1.0 and 0.1 are the defaults.
LossWeights == {Frac(1, 1), Frac(1, 10)}

\* Every model name a Potential can carry.
AllModelNames == LoadableModels \cup UnsupportedModels

\* Operations called on a trained Potential of any model name.
InitOps ==
    /\ args \in TrainArgs({FALSE})
    /\ args.metric_name = "val_loss" /\ args.early_stop_patience = 0
    /\ args.save_checkpoint /\ args.ckpt_interval = 2
    /\ \E name \in AllModelNames : pot = [p \in {0} |-> TrainedState(name)]
    /\ pc = [p \in {0} |-> "idle"]
    /\ epoch = [p \in {0} |-> 0]
    /\ metric = [p \in {0} |-> <<0, 0, 0, 0>>]
    /\ call = [p \in {0} |-> NoCall]
    /\ best_seen = [p \in {0} |-> PriorBestSeen(Absent, 0)]
    /\ files = [f \in FileNames |-> Absent]
    /\ loaded = NoLoad
    /\ run = NoRun
    /\ last_op = NoOp
    /\ hist = [p \in DOMAIN pot |-> NewHist(pot[p], <<>>)]

NextOps ==
    \/ \E p \in Procs, f, s \in BOOLEAN, fg, sg \in GradValues :
          forward(p, f, s, fg, sg)
    \/ \E p \in Procs, include \in BOOLEAN \X BOOLEAN \X BOOLEAN,
          fg, sg \in GradValues :
          loss_calc(p, UnitBatch,
                    Result(ForwardOutput(include[2], include[3], fg, sg),
                           UnitPrediction),
                    "MSELoss", include, Frac(1, 1), Frac(1, 10))
    \/ \E p \in Procs, f, s \in BOOLEAN, fg, sg \in GradValues :
          get_properties(p, f, s, fg, sg)
    \/ \E p \in Procs, n \in 0..MaxBatches, f, s \in BOOLEAN,
          fg, sg \in GradValues :
          predict_properties(p, n, f, s, fg, sg)
    \/ \E name \in AllModelNames : load_pretrained(name)
    \/ \E name \in AllModelNames : batch_to_dict(name)
    \/ \E p \in Procs, s \in BOOLEAN, fg, sg \in GradValues :
          calculate(p, s, fg, sg)
    \/ \E p \in Procs, fl \in FinetuneLayers, h \in BOOLEAN, n \in 1..MaxLayers :
          freeze_reset_model(p, fl, h, n)
    \/ \E p \in Procs, fl \in FinetuneLayers, kw \in FinetuneKwargs,
          h \in BOOLEAN, n \in 1..MaxLayers :
          finetune_mode(p, fl, kw, h, n)
    \/ \E p \in Procs, n \in 0..MaxBatches, mode \in Modes :
          train_one_epoch_enter(p, SourceData(0, n), mode, DefaultInclude)
    \/ \E p \in Procs : train_one_epoch_batch(p)
    \/ \E p \in Procs : train_one_epoch_return(p)

SpecOps == InitOps /\ [][NextOps]_vars

\* One call of loss_calc on the result of forward, for every labelled
\* batch, prediction, loss object, selection of quantities and weights.
InitLoss ==
    /\ InitOps
    /\ pot[0].model_name \in {"m3gnet", "graphormer"}

NextLoss ==
    /\ last_op = NoOp
    /\ \E p \in Procs, graph_batch \in GraphBatches, pred \in Predictions,
          loss \in LossFns, include \in BOOLEAN \X BOOLEAN \X BOOLEAN,
          loss_f, loss_s \in LossWeights :
          loss_calc(p, graph_batch,
                    Result(ForwardOutput(include[2], include[3], "tensor", "tensor"),
                           pred),
                    loss, include, loss_f, loss_s)

SpecLoss == InitLoss /\ [][NextLoss]_vars

\* ------------------------------------------- load_from_multi_head_model
\* The key of a state-dict entry, "<module><index>.<rest>": the name of the
\* module, the decimal digits that follow it ("final_layer_list.10.weight"
\* has the digits 1, 0) and the name of the tensor.
Key(module, index, rest) == [module |-> module, index |-> index, rest |-> rest]

\* The decimal digits of n >= 0.
RECURSIVE Digits(_)
Digits(n) == IF n < 10 THEN <<n>> ELSE Digits(n \div 10) \o <<n % 10>>

\* "%d" % head_index, the characters being the digits 0..9 and -1 for the
\* minus sign.
FormatD(head_index) ==
    IF head_index < 0 THEN <<-1>> \o Digits(-head_index) ELSE Digits(head_index)

IsPrefix(s, t) == Len(s) <= Len(t) /\ SubSeq(t, 1, Len(s)) = s

\* ("<list>.%d" % head_index) in key: a substring test, met by every key
\* of `list` whose index starts with the digits of head_index.
Contains(key, list, head_index) ==
    key.module = list /\ IsPrefix(FormatD(head_index), key.index)

\* key.replace("_layer_list.%d" % head_index, "") on a key of
\* final_layer_list, key.replace("_list.%d" % head_index, "") on a key of
\* normalizer_list: the digits that follow those of head_index stay.
Replace(key, head_index) ==
    Key(IF key.module = "final_layer_list" THEN "final" ELSE "normalizer",
        SubSeq(key.index, Len(FormatD(head_index)) + 1, Len(key.index)),
        key.rest)

HeadLists == {"final_layer_list", "normalizer_list"}

\* The names of the tensors of a module.
TensorNames == {"weight", "bias"}

\* The state dict of a multi-head model of n heads: the shared body, one
\* final layer and one normalizer per head, and (records of older models)
\* the sph_2 buffers.  A value remembers the entry it was stored under.
MultiHeadStateDict(n, sph_2, version) ==
    LET keys == {Key("body", <<>>, r) : r \in TensorNames}
                \cup {Key(l, Digits(h), r) :
                         l \in HeadLists, h \in 0..(n - 1), r \in TensorNames}
                \cup (IF sph_2 THEN {Key("sph_2", <<>>, "buffer")} ELSE {})
    IN  [k \in keys |-> [of |-> k, version |-> version]]

\* What torch.load gives for a record of a multi-head model.
MultiHeadRecords ==
    {[model |-> MultiHeadStateDict(n, s, v), description |-> "multi-head",
      heads |-> n] :
        n \in 1..MaxHeads, s \in BOOLEAN, v \in 0..1}

\* The loop over ori_ckpt: the entries of the two head lists and of sph_2
\* are deleted, those that contain the name of head head_index are stored
\* again under the replaced key.
SingleHeadStateDict(state_dict, head_index) ==
    LET carried == {k \in DOMAIN state_dict :
                       \E l \in HeadLists : Contains(k, l, head_index)}
        deleted == {k \in DOMAIN state_dict :
                       k.module \in HeadLists \cup {"sph_2"}}
        keys == (DOMAIN state_dict \ deleted)
                \cup {Replace(k, head_index) : k \in carried}
    IN  [k \in keys |->
            IF \E c \in carried : Replace(c, head_index) = k
            THEN state_dict[CHOOSE c \in carried : Replace(c, head_index) = k]
            ELSE state_dict[k]]

\* The keys of the state dict of M3Gnet(**checkpoint["model_args"]): those
\* of the body, of the final layer and of the normalizer.
M3GnetStateKeys ==
    {Key(m, <<>>, r) : m \in {"body", "final", "normalizer"}, r \in TensorNames}

MissingOrUnexpected == [status |-> "raised", error |-> "RuntimeError"]

\* model.load_state_dict(state_dict, strict=True): the keys given must be
\* the keys of the model.
LoadStateDictStrict(state_dict) ==
    IF DOMAIN state_dict = M3GnetStateKeys
    THEN [status |-> "returned", model |-> state_dict]
    ELSE MissingOrUnexpected

\* Potential.load_from_multi_head_model(model_name, head_index, load_path),
\* torch.load giving `checkpoint`; without a load_path the record is the
\* pretrained one, which has one head per dataset of DatasetNames.
\* `state_dict` is checkpoint["model"] as the loop leaves it.
load_from_multi_head_model(model_name, head_index, load_path, checkpoint) ==
    /\ \A p \in Procs : pc[p] = "idle"
    /\ load_path = None => checkpoint.heads = Len(DatasetNames)
    /\ last_op' =
          [op |-> "load_from_multi_head_model", model_name |-> model_name,
           head_index |-> head_index, load_path |-> load_path,
           checkpoint |-> checkpoint,
           state_dict |-> IF model_name = "m3gnet"
                          THEN SingleHeadStateDict(checkpoint.model, head_index)
                          ELSE checkpoint.model,
           result |-> IF model_name # "m3gnet" THEN NotSupported
                      ELSE LoadStateDictStrict(
                               SingleHeadStateDict(checkpoint.model, head_index))]
    /\ UNCHANGED <<hist, args, pot, pc, epoch, metric, files, call, best_seen, loaded, run>>

InitHead ==
    /\ InitOps
    /\ pot[0].model_name = "m3gnet"

NextHead ==
    /\ last_op = NoOp
    /\ \E model_name \in {"m3gnet", "graphormer"}, head_index \in (-1)..(MaxHeads - 1),
          load_path \in {None, "path"}, checkpoint \in MultiHeadRecords :
          load_from_multi_head_model(model_name, head_index, load_path, checkpoint)

SpecHead == InitHead /\ [][NextHead]_vars

\* ------------------------------------------------------------------ claims
\* The selected metric of a validation result, and the one a record stores.
Selected(m, self) == m[self.idx + 1]

StoredMetric(record, self) == record.validation_metrics[saved_name[self.idx + 1]]

\* C1: with persistence enabled, a single-process run ends its epoch loop at
\* epoch e exactly when e > e_best + early_stop_patience, e_best being the
\* epoch of the best result so far (epoch e itself when e improved on the
\* stored best).
C1_StopsExactlyPastPatience ==
    [][\A p \in Procs :
          save_model(p) /\ args.save_checkpoint
          => (pc'[p] = "early_stop"
              <=> epoch[p] > best_seen'[p].epoch + args.early_stop_patience)]_vars

\* C2: with persistence enabled and a readable best_model.pth that stores the
\* configured metric, save_model overwrites best_model.pth exactly when the
\* current value is strictly lower than the stored one; the stored value
\* becomes the minimum of the two, so it never increases.
C2_BestOverwrittenIffLower ==
    [][\A p \in Procs :
          (/\ save_model(p)
           /\ args.save_checkpoint
           /\ files[BestFile].kind = "record"
           /\ HasMetric(files[BestFile], pot[p].idx))
          => LET stored == StoredMetric(files[BestFile], pot[p])
                 current == Selected(metric[p], pot[p])
             IN  /\ BestFile \in call'[p].wrote <=> current < stored
                 /\ StoredMetric(files'[BestFile], pot[p])
                      = IF current < stored THEN current ELSE stored
                 /\ current >= stored => files'[BestFile] = files[BestFile]
                 /\ current < stored
                      => files'[BestFile].last_epoch = epoch[p]]_vars

\* C2 witness: in an epoch after the first, a readable best_model.pth was
\* overwritten by an improving epoch.
C2_Witness ==
    \E p \in Procs :
        /\ args.save_checkpoint
        /\ call[p].best_model = "record"
        /\ BestFile \in call[p].wrote
        /\ pot[p].last_epoch >= 1
        /\ files[BestFile].last_epoch = pot[p].last_epoch

\* C3: when save_model runs with persistence enabled and best_model.pth is
\* absent or unreadable, it writes the current state as best_model.pth,
\* raises nothing and does not signal early stop.
C3_MissingBestIsSaved ==
    [][\A p \in Procs :
          (save_model(p) /\ args.save_checkpoint /\ files[BestFile].kind # "record")
          => /\ BestFile \in call'[p].wrote
             /\ files'[BestFile].kind = "record"
             /\ files'[BestFile].last_epoch = epoch[p]
             /\ files'[BestFile].validation_metrics = MetricsDict(metric[p])
             /\ ~call'[p].ret
             /\ pc'[p] = "loop"]_vars

\* C3 witness: a call that found best_model.pth unreadable wrote it and the
\* loop went on.
C3_Witness ==
    \E p \in Procs :
        /\ args.save_checkpoint
        /\ call[p].best_model = "corrupt"
        /\ BestFile \in call[p].wrote
        /\ pc[p] = "loop"
        /\ files[BestFile].last_epoch = pot[p].last_epoch

\* C4: with persistence enabled, every call of save_model in epoch e
\* overwrites last_model.pth with the state of epoch e, and writes
\* ckpt_e.pth when e mod ckpt_interval = 0, whatever the early-stop outcome.
C4_LastAndPeriodicEveryEpoch ==
    [][\A p \in Procs :
          (save_model(p) /\ args.save_checkpoint)
          => /\ LastFile \in call'[p].wrote
             /\ files'[LastFile].kind = "record"
             /\ files'[LastFile].last_epoch = epoch[p]
             /\ epoch[p] % args.ckpt_interval = 0
                  => CkptFile(epoch[p]) \in call'[p].wrote]_vars

\* C5: with save_checkpoint false, no step of any process, single-process or
\* distributed, writes or changes any checkpoint file.
C5_DisabledWritesNothing ==
    [][~args.save_checkpoint
       => /\ files' = files
          /\ \A p \in Procs : call'[p].wrote = {}]_vars

\* C5 witness: with persistence disabled, rank 0 of a distributed run has
\* finished all its epochs, one of them improving on best_metric.
C5_Witness ==
    /\ ~args.save_checkpoint
    /\ args.is_distributed
    /\ pot[0].rank = 0
    /\ pc[0] = "returned"
    /\ pot[0].best_metric < BestMetricInit

\* C6: with save_checkpoint false, save_model still stops a single-process
\* run at the first epoch e > e_best + early_stop_patience, as it does with
\* persistence enabled.
C6_DisabledStillStops ==
    [][\A p \in Procs :
          save_model(p) /\ ~args.save_checkpoint
          => (pc'[p] = "early_stop"
              <=> epoch[p] > best_seen'[p].epoch + args.early_stop_patience)]_vars

\* C7: in distributed training a process whose rank is not 0 never writes a
\* checkpoint file; every write is rank 0's.
C7_OnlyRankZeroWrites ==
    \A p \in Procs : call[p].wrote # {} => pot[p].rank = 0

\* C7 witness: with persistence enabled a process of rank other than 0 has
\* had an improving epoch, and rank 0 has written best_model.pth.
C7_Witness ==
    \E p \in Procs :
        /\ pot[p].rank > 0
        /\ args.save_checkpoint
        /\ pot[p].best_metric < BestMetricInit
        /\ pot[0].rank = 0
        /\ BestFile \in call[0].wrote

\* C8: every call of save_model_ddp leaves best_metric at the minimum of its
\* former value and the selected metric (so it is non-increasing, at most 10,
\* on every rank, persistence enabled or not), no other step changes it, and
\* best_model.pth is written exactly by rank 0 with persistence enabled in an
\* epoch whose selected metric is strictly below the former best_metric: the
\* decision rests on memory alone.
C8_BestMetricIsRunningMinimum ==
    [][\A p \in Procs :
          LET before == pot[p].best_metric
              current == Selected(metric[p], pot[p])
          IN  /\ before <= BestMetricInit
              /\ IF save_model_ddp(p)
                 THEN /\ pot'[p].best_metric
                           = IF current < before THEN current ELSE before
                      /\ BestFile \in call'[p].wrote
                           <=> /\ pot[p].rank = 0
                               /\ args.save_checkpoint
                               /\ current < before
                 ELSE pot'[p].best_metric = before]_vars

\* C8 witness: rank 0 wrote best_model.pth in an epoch after the first, its
\* selected metric being below best_metric.
C8_Witness ==
    /\ args.is_distributed
    /\ pot[0].rank = 0
    /\ BestFile \in call[0].wrote
    /\ pot[0].best_metric < BestMetricInit
    /\ pot[0].last_epoch >= 1

\* C9: save_model_ddp never signals early stop: a distributed run started
\* with a supported metric name trains every epoch from last_epoch + 1 to
\* epochs - 1 exactly once, whatever the metrics and the patience.
C9_DistributedNeverStopsEarly ==
    \A p \in Procs :
        /\ pc[p] # "early_stop"
        /\ ~call[p].ret
        /\ pc[p] = "raised" => IndexOf(args.metric_name) = -1
        /\ pc[p] = "loop" => epoch[p] = pot[p].last_epoch + 1
        /\ pc[p] = "returned"
             => /\ pot[p].last_epoch = args.epochs - 1
                /\ pot[p].optimizer.state = args.epochs

\* C9 witness: a distributed run with patience 0 returned after all its
\* epochs although its selected metric never improved.
C9_Witness ==
    \E p \in Procs :
        /\ args.is_distributed
        /\ args.early_stop_patience = 0
        /\ pc[p] = "returned"
        /\ pot[p].last_epoch = MaxEpochs - 1
        /\ pot[p].best_metric = BestMetricInit

\* What C10 asks of the result of a load: it succeeded, the model holds the
\* weights and model_args written to the file, and last_epoch,
\* validation_metrics and description are those of the saved state.
RoundTripOk(result, file, self) ==
    /\ result.status = "ok"
    /\ result.pot.model.weights = file.model.weights
    /\ result.pot.model.weights = self.model.weights
    /\ result.pot.model.model_args = file.model_args
    /\ result.pot.model.model_args = self.model.model_args
    /\ result.pot.last_epoch = self.last_epoch
    /\ result.pot.validation_metrics = self.validation_metrics
    /\ result.pot.description = self.description

\* A load of a file that holds the saved state, with the state's model_name
\* and the training state requested.
RoundTripLoad ==
    /\ loaded' # loaded
    /\ files[loaded'.path].kind = "record"
    /\ loaded'.model_name = pot[0].model_name
    /\ loaded'.load_training_state

\* C10: for every training state, save followed by load of the
\* same file with the same model_name restores weights, model_args,
\* last_epoch, validation_metrics and description.
C10_RoundTripEveryState ==
    [][RoundTripLoad => RoundTripOk(loaded'.result, files[loaded'.path], pot[0])]_vars

\* C10, for loadable models: the round trip restores them for every training state
\* whose model_name is m3gnet or m3gnet_multi_head; for any other model_name
\* load raises NotImplementedError.
C10_RoundTripLoadableModels ==
    [][RoundTripLoad
       => IF pot[0].model_name \in LoadableModels
          THEN RoundTripOk(loaded'.result, files[loaded'.path], pot[0])
          ELSE /\ loaded'.result.status = "raised"
               /\ loaded'.result.error = "NotImplementedError"]_vars

\* C10 witness: a trained, DistributedDataParallel-wrapped state with
\* recorded metadata was saved and loaded back with its weights.
C10_Witness ==
    /\ loaded.result.status = "ok"
    /\ loaded.load_training_state
    /\ files[loaded.path].kind = "record"
    /\ pot[0].model.wrapped
    /\ pot[0].model.weights = <<"raw", 1>>
    /\ pot[0].last_epoch = 1
    /\ pot[0].description = "run"
    /\ loaded.result.pot.model.weights = <<"raw", 1>>
    /\ loaded.result.pot.last_epoch = 1

\* A load of a file that holds a record.
LoadOfRecord ==
    /\ loaded' # loaded
    /\ files[loaded'.path].kind = "record"

\* C11: whenever the model_name stored in the record differs from the
\* requested one, Potential.load fails and returns no training state,
\* whatever else the record holds and whether or not the training state was
\* requested.
C11_NameMismatchIsFatal ==
    [][(LoadOfRecord /\ files[loaded'.path].model_name # loaded'.model_name)
       => /\ loaded'.result.status = "raised"
          /\ "pot" \notin DOMAIN loaded'.result]_vars

\* C11 witness: a complete record of an m3gnet_multi_head state was loaded
\* as m3gnet, a name load can build, and the load raised.
C11_Witness ==
    /\ loaded.path = BestFile
    /\ loaded.model_name = "m3gnet"
    /\ files[BestFile].model_name = "m3gnet_multi_head"
    /\ files[BestFile] = Checkpoint(pot[0])
    /\ loaded.result.status = "raised"
    /\ loaded.result.error = "AssertionError"

\* A load, with the training state requested, of a record of a model kind
\* load can build, under the record's own name.
LoadOfOwnRecord ==
    /\ LoadOfRecord
    /\ loaded'.load_training_state
    /\ loaded'.model_name = files[loaded'.path].model_name
    /\ loaded'.model_name \in LoadableModels

\* The optimizer entry of the record read is there and is corrupted.
OptimizerCorrupted ==
    /\ "optimizer" \in DOMAIN files[loaded'.path]
    /\ files[loaded'.path].optimizer = Malformed

\* C12: Potential.load on a record whose optimizer entry is corrupted does
\* not raise, loads the model weights, and the optimizer of the resulting
\* training state is None.
C12_CorruptOptimizerGivesNone ==
    [][(LoadOfOwnRecord /\ OptimizerCorrupted)
       => /\ loaded'.result.status = "ok"
          /\ loaded'.result.pot.model.weights = pot[0].model.weights
          /\ loaded'.result.pot.optimizer = NoObject]_vars

\* C12, with the constructor's default: Potential.load on such a record
\* does not raise and loads the model weights; the None it passes for the
\* optimizer makes Potential.__init__ construct a new Adam, so the optimizer
\* of the resulting training state is a fresh one, not None, and holds
\* nothing of the saved optimizer state.
C12_CorruptOptimizerGivesFreshAdam ==
    [][(LoadOfOwnRecord /\ OptimizerCorrupted)
       => /\ loaded'.result.status = "ok"
          /\ loaded'.result.pot.model.weights = pot[0].model.weights
          /\ loaded'.result.pot.optimizer # NoObject
          /\ loaded'.result.pot.optimizer = Adam("init")
          /\ loaded'.result.pot.optimizer.state # pot[0].optimizer.state]_vars

\* C12 witness: a record with a corrupted optimizer entry and everything
\* else in place was loaded; the weights are the saved ones.
C12_Witness ==
    /\ loaded.result.status = "ok"
    /\ loaded.load_training_state
    /\ loaded.path = BestFile
    /\ files[BestFile] = [Checkpoint(pot[0]) EXCEPT !.optimizer = Malformed]
    /\ loaded.result.pot.model.weights = <<"raw", 1>>
    /\ loaded.result.pot.last_epoch = 1

\* An entry of the record is missing or malformed.
EntryFails(file, k) == k \notin DOMAIN file \/ file[k] = Malformed

\* What C13 asks of a load of `file`, a record of the state `self`: it
\* returns a training state with the saved weights; each of optimizer,
\* scheduler, EMA and epoch metadata is the saved one when its entry is
\* usable and the default otherwise, whatever the other entries are.
\* default_metrics tells which validation metrics count as the default.
DegradedRestore(result, file, self, default_metrics) ==
    /\ result.status = "ok"
    /\ result.pot.model.weights = self.model.weights
    /\ IF EntryFails(file, "optimizer")
       THEN result.pot.optimizer = Adam("init")
       ELSE result.pot.optimizer.state = self.optimizer.state
    /\ result.pot.scheduler.kind = "StepLR"
    /\ IF EntryFails(file, "scheduler")
       THEN result.pot.scheduler = StepLR(result.pot.optimizer)
       ELSE result.pot.scheduler.state = self.scheduler.state
    /\ IF EntryFails(file, "ema") \/ file.ema # self.ema
       THEN result.pot.ema = ExponentialMovingAverage(result.pot.model)
       ELSE result.pot.ema = self.ema
    /\ IF MetadataKeys \subseteq DOMAIN file
       THEN /\ result.pot.last_epoch = self.last_epoch
            /\ result.pot.validation_metrics = self.validation_metrics
            /\ result.pot.description = self.description
       ELSE /\ result.pot.last_epoch = DefaultLastEpoch
            /\ DOMAIN result.pot.validation_metrics = DOMAIN default_metrics
            /\ \A k \in DOMAIN default_metrics :
                  result.pot.validation_metrics[k] = default_metrics[k]
            /\ result.pot.description = ""

DrawnFrom(d) == {i \in 1..Len(run.log) : run.log[i].dataset_idx = d}

\* C14: in a call of train_one_epoch_multi_head on sources of lengths
\* L_1..L_k, whatever the shuffle, no source iterator is advanced past its
\* end, the batches of each source are taken in that source's own order,
\* and a pass that returns has processed exactly L_i batches of source i,
\* L_1 + ... + L_k in all.
C14_EverySourceOnceInOrder ==
    (run # NoRun /\ run.kind = "multi_head" /\ Len(run.lens) > 0)
    => /\ run.error # "StopIteration"
       /\ \A d \in 1..Len(run.lens) : run.dataloader_iter[d] <= run.lens[d]
       /\ \A i \in 1..Len(run.log) :
             /\ run.log[i].dataset_idx \in 0..(Len(run.lens) - 1)
             /\ run.log[i].item
                  = Cardinality({j \in DrawnFrom(run.log[i].dataset_idx) : j < i})
       /\ run.status = "done"
            => \A d \in 1..Len(run.lens) :
                  Cardinality(DrawnFrom(d - 1)) = run.lens[d]

\* C14 witness: a pass over two sources of two batches each returned after
\* an interleaved visit that began with the second source.
C14_Witness ==
    /\ run # NoRun /\ run.kind = "multi_head"
    /\ run.status = "done"
    /\ run.lens = <<MaxBatches, MaxBatches>>
    /\ Len(run.log) = 2 * MaxBatches
    /\ run.log[1].dataset_idx = 1
    /\ run.log[2].dataset_idx = 0
    /\ run.log[3].dataset_idx = 1

\* C15: in val mode of train_one_epoch and train_one_epoch_multi_head every
\* model evaluation runs with the EMA shadow weights, and after every batch
\* (so after the pass too) the Potential is what it was before the pass:
\* same raw weights, same optimizer state, same EMA shadow.
C15_ValidationUnderEmaLeavesState ==
    (run # NoRun /\ run.mode = "val")
    => /\ pot[0] = run.before
       /\ pot[0].model.weights = run.before.model.weights
       /\ pot[0].optimizer = run.before.optimizer
       /\ pot[0].ema = run.before.ema
       /\ \A i \in 1..Len(run.log) :
             /\ run.log[i].used = run.before.ema.shadow
             /\ run.log[i].used # run.before.model.weights

\* C15 witness: a validation pass of train_one_epoch over two batches
\* returned; both evaluations used the shadow weights and the model holds
\* its raw weights.
C15_Witness ==
    /\ run # NoRun /\ run.kind = "single" /\ run.mode = "val"
    /\ run.status = "done"
    /\ Len(run.log) = 2
    /\ run.log[2].used = <<"ema", 1>>
    /\ pot[0].model.weights = <<"raw", 1>>

\* C16: every checkpoint file written by save_model or save_model_ddp
\* (best, periodic or last) stores the EMA shadow as the model weights, and
\* whichever way the call ends (normal return, early-stop return, read
\* failure swallowed, assertion raised) the model holds the raw weights it
\* had before the call.
C16_SnapshotsUnderEmaSwapUndone ==
    [][\A p \in Procs :
          (save_model(p) \/ save_model_ddp(p))
          => /\ \A f \in call'[p].wrote :
                   /\ files'[f].model.weights = pot[p].ema.shadow
                   /\ files'[f].model.weights # pot[p].model.weights
             /\ pot'[p].model.weights = pot[p].model.weights]_vars

\* C16 witness: a single-process run stopped early in an epoch that had
\* first overwritten best_model.pth; the file holds shadow weights and the
\* model its raw weights.
C16_Witness ==
    /\ ~args.is_distributed
    /\ pc[0] = "early_stop"
    /\ call[0].wrote = {BestFile}
    /\ files[BestFile].model.weights = pot[0].ema.shadow
    /\ pot[0].model.weights = <<"raw", pot[0].last_epoch>>

\* C17: a Potential whose model_name is graphormer or geomformer can be
\* constructed, and every call of forward, loss_calc, get_properties,
\* predict_properties, load without path, batch_to_dict with that model
\* type, DeepCalculator.calculate and train_one_epoch on it raises
\* NotImplementedError instead of returning a result.
C17_UnsupportedAlwaysRaises ==
    /\ (/\ last_op # NoOp
        /\ last_op.op \in {"forward", "loss_calc", "get_properties",
                            "predict_properties", "load", "batch_to_dict",
                            "calculate"}
        /\ last_op.model_name \in UnsupportedModels)
       => last_op.result = NotSupported
    /\ (/\ run # NoRun
        /\ run.kind = "single"
        /\ pot[0].model_name \in UnsupportedModels)
       => /\ run.status # "done"
          /\ run.log = <<>>

\* C18: for a metric_name outside the supported four, train_model,
\* save_model and save_model_ddp each end in a failure that reaches the
\* caller: none of them returns normally, goes on, or writes a checkpoint.
C18_BadMetricNameIsFatal ==
    [][\A p \in Procs :
          (/\ train_model_enter(p) \/ save_model(p) \/ save_model_ddp(p)
           /\ IndexOf(args.metric_name) = -1)
          => /\ pc'[p] = "raised"
             /\ call'[p].wrote = {}
             /\ files' = files]_vars

\* finetune_layers is -1 or a layer count in 0..n-1.
AcceptedLayers(finetune_layers, n) ==
    finetune_layers = -1 \/ (0 <= finetune_layers /\ finetune_layers < n)

\* The last call was one of the two fine-tuning operations, on a model that
\* has encoder layers to count.
FinetuneCall ==
    /\ last_op # NoOp
    /\ last_op.op \in {"finetune_mode", "freeze_reset_model"}
    /\ last_op.has_node_head

\* C19: for every model_name, finetune_mode and freeze_reset_model raise
\* the ValueError exactly when finetune_layers is neither -1 nor in
\* 0..(number of encoder layers - 1).
C19_BadLayerCountAlwaysRaises ==
    FinetuneCall
    => IF AcceptedLayers(last_op.finetune_layers, last_op.layers)
       THEN last_op.result.status = "returned"
       ELSE /\ last_op.result.status = "raised"
            /\ last_op.result.error = "ValueError"

\* C19, by operation: freeze_reset_model does so for every model_name;
\* finetune_mode does so for graphormer and geomformer only, and for any
\* other model_name returns without raising and without freezing anything,
\* whatever finetune_layers is.
C19_BadLayerCountRaisesWhereFinetuned ==
    FinetuneCall
    => IF /\ last_op.op = "finetune_mode"
          /\ last_op.model_name \notin UnsupportedModels
       THEN last_op.result = [status |-> "returned", trainable |-> "all"]
       ELSE IF AcceptedLayers(last_op.finetune_layers, last_op.layers)
       THEN last_op.result.status = "returned"
       ELSE /\ last_op.result.status = "raised"
            /\ last_op.result.error = "ValueError"

\* C19 witness: finetune_mode on a graphormer Potential with
\* finetune_layers equal to the number of encoder layers raised.
C19_Witness ==
    /\ FinetuneCall
    /\ last_op.op = "finetune_mode"
    /\ last_op.model_name = "graphormer"
    /\ last_op.finetune_layers = last_op.layers
    /\ last_op.result.status = "raised"
    /\ last_op.result.error = "ValueError"

\* C20: for every combination of include_forces and include_stresses, the
\* mapping forward returns contains total_energy, contains forces only if
\* include_forces was true (the positions then being marked
\* differentiable), contains stresses only if include_stresses was true
\* (the strain then being attached to the cell), and maps no key to None.
C20_ForwardKeys ==
    (/\ last_op # NoOp
     /\ last_op.op = "forward"
     /\ last_op.model_name \notin UnsupportedModels)
    => /\ last_op.result.status = "returned"
       /\ "total_energy" \in DOMAIN last_op.result.output
       /\ "forces" \in DOMAIN last_op.result.output
            => /\ last_op.include_forces
               /\ last_op.result.atom_pos_requires_grad
       /\ "stresses" \in DOMAIN last_op.result.output
            => /\ last_op.include_stresses
               /\ last_op.result.cell_strained
       /\ \A k \in DOMAIN last_op.result.output :
             last_op.result.output[k] # None

\* C20 witness: forward with both flags true returned energy, forces and
\* stresses.
C20_Witness ==
    /\ last_op # NoOp
    /\ last_op.op = "forward"
    /\ last_op.include_forces /\ last_op.include_stresses
    /\ last_op.result.status = "returned"
    /\ DOMAIN last_op.result.output = {"total_energy", "forces", "stresses"}

\* The operations that read the dictionary forward returns.
ForwardCallers == {"loss_calc", "predict_properties", "get_properties", "calculate"}

\* C21 (as stated): whenever forward's output lacks the forces or the
\* stresses key, a caller of forward (loss_calc, predict_properties,
\* get_properties, DeepCalculator.calculate) still returns: it does not
\* fail on the absent key.
C21_MissingKeyIsNotComputed ==
    (/\ last_op.op \in ForwardCallers
     /\ last_op.model_name \notin UnsupportedModels
     /\ {"forces", "stresses"} \ DOMAIN last_op.output # {})
        => last_op.result.status = "returned"

\* C23: the loss loss_calc returns is the sum, over the included
\* quantities, of loss(E_pred / n_atoms, E_true / n_atoms), loss_f *
\* loss(F_pred, F_true) and loss_s * loss(S_pred, S_true), the force and
\* stress terms on the raw values; the three MAE values are the absolute
\* errors of the same quantities, whatever loss_f and loss_s are.
C23_LossComposition ==
    (last_op.op = "loss_calc" /\ last_op.result.status = "returned") =>
        LET b == last_op.graph_batch
            r == last_op.output
            n == b.num_atoms
            e_term == Loss(last_op.loss, Frac(r["total_energy"], n),
                           Frac(b.energy, n))
            f_term == Times(last_op.loss_f,
                            Loss(last_op.loss, Frac(r["forces"], 1),
                                 Frac(b.forces, 1)))
            s_term == Times(last_op.loss_s,
                            Loss(last_op.loss, Frac(r["stresses"], 1),
                                 Frac(b.stress, 1)))
            sum == Plus(Plus(IF last_op.include_energy THEN e_term ELSE Zero,
                             IF last_op.include_forces THEN f_term ELSE Zero),
                        IF last_op.include_stresses THEN s_term ELSE Zero)
        IN  /\ last_op.result.loss_ = sum
            /\ last_op.include_energy =>
                  last_op.result.e_mae =
                      Frac(Abs(r["total_energy"] - b.energy), n)
            /\ last_op.include_forces =>
                  last_op.result.f_mae = Frac(Abs(r["forces"] - b.forces), 1)
            /\ last_op.include_stresses =>
                  last_op.result.s_mae = Frac(Abs(r["stresses"] - b.stress), 1)

\* C23 witness: a loss over all three quantities of a two-atom structure
\* with an energy, a force and a stress error and weights other than 1.
C23_Witness ==
    /\ last_op.op = "loss_calc" /\ last_op.result.status = "returned"
    /\ last_op.include_energy /\ last_op.include_forces
    /\ last_op.include_stresses
    /\ last_op.graph_batch.num_atoms = 2
    /\ last_op.loss_f = Frac(1, 10) /\ last_op.loss_s = Frac(1, 10)
    /\ last_op.result.e_mae = Frac(1, 2)
    /\ last_op.result.f_mae = Frac(1, 1)
    /\ last_op.result.s_mae = Frac(1, 1)
    /\ last_op.result.loss_ = Frac(9, 20)

\* C22 (as stated): for every combination of include_energy,
\* include_forces and include_stresses, a validation pass of
\* train_one_epoch and of train_one_epoch_multi_head on a supported model
\* completes, every batch's loss_calc returns 0 in the MAE slot of an
\* excluded quantity, and the pass returns 0 in the slot of every excluded
\* quantity.
C22_ExcludedContributeZero ==
    (/\ run # NoRun /\ run.mode = "val"
     /\ pot[0].model_name \notin UnsupportedModels)
    => /\ run.status # "raised"
       /\ \A i \in 1..Len(run.log) :
             /\ ~run.include[1] => run.log[i].values.e_mae = Zero
             /\ ~run.include[2] => run.log[i].values.f_mae = Zero
             /\ ~run.include[3] => run.log[i].values.s_mae = Zero
       /\ run.status = "done"
            => \A k \in 1..3 : ~run.include[k] => run.result[k + 1] = Zero

\* The calls one training batch makes, in order.
BatchCalls ==
    <<"forward", "loss_calc", "zero_grad", "backward", "clip_grad_norm_",
      "step", "ema.update", "update">>

\* C24: in train mode every batch of train_one_epoch and of
\* train_one_epoch_multi_head makes, once each and in this order, the
\* forward evaluation, the loss computation, zero_grad, backward, the
\* clipping of the gradient norm to 1.0, the optimizer step and the EMA
\* update, then the metric update; the gradient stepped along is the
\* clipped gradient of this batch alone, the shadow follows the stepped
\* weights, and a batch starts only after the previous one's calls.
C24_TrainingStepOrder ==
    [][/\ (/\ run # NoRun /\ run.mode = "train"
           /\ run'.status = "running"
           /\ Len(run'.log) = Len(run.log) + 1)
          => /\ run'.steps = run.steps \o BatchCalls
             /\ run'.grad = MaxNorm
             /\ pot'[0].model.weights
                  = <<"raw", pot[0].model.weights[2] + MaxNorm>>
             /\ pot'[0].optimizer.state = pot[0].optimizer.state + 1
             /\ pot'[0].ema.shadow = <<"ema", pot'[0].model.weights[2]>>
       /\ (/\ run' # NoRun /\ run'.mode = "train"
           /\ run'.status \in {"running", "done"})
          => Len(run'.steps) = Len(BatchCalls) * Len(run'.log)]_vars

\* C24 witness: a training pass over two sources of MaxBatches batches each
\* has returned.
C24_Witness ==
    /\ run # NoRun /\ run.kind = "multi_head" /\ run.mode = "train"
    /\ run.status = "done"
    /\ run.lens = <<MaxBatches, MaxBatches>>
    /\ run.steps = BatchCalls \o BatchCalls \o BatchCalls \o BatchCalls
    /\ pot[0].model.weights = <<"raw", run.before.model.weights[2] + 4>>
    /\ pot[0].ema.shadow = <<"ema", run.before.model.weights[2] + 4>>

\* The mean, over the batches drawn from source d, of the value `key` that
\* loss_calc returned for them (nan for a source without batches).
RECURSIVE LogTotal(_, _, _)
LogTotal(log, d, key) ==
    IF log = <<>> THEN Zero
    ELSE LET rest == LogTotal(SubSeq(log, 1, Len(log) - 1), d, key)
             last == log[Len(log)]
         IN  IF last.dataset_idx = d THEN Plus(rest, last.values[key]) ELSE rest

EpochMean(d, key) ==
    IF DrawnFrom(d) = {} THEN NaN
    ELSE Times(LogTotal(run.log, d, key), Frac(1, Cardinality(DrawnFrom(d))))

\* The sum of the epoch means of `key` over the sources 0..d-1, leaving
\* out the sources in `skip`.
RECURSIVE SumOfMeans(_, _, _)
SumOfMeans(d, key, skip) ==
    IF d = 0 THEN Zero
    ELSE IF (d - 1) \in skip THEN SumOfMeans(d - 1, key, skip)
    ELSE Add(SumOfMeans(d - 1, key, skip), EpochMean(d - 1, key))

\* C29: the validation result of train_one_epoch_multi_head is, for the
\* loss and each included energy and stress MAE, the sum over all data sets
\* of the data set's own epoch mean, and for an included force MAE the sum
\* over all data sets except the one named QM9.
C29_MultiHeadAggregation ==
    (/\ run # NoRun /\ run.kind = "multi_head" /\ run.mode = "val"
     /\ run.status = "done")
    => LET n == Len(run.lens)
           qm9 == {d \in 0..(n - 1) : run.dataset_name_list[d + 1] = "QM9"}
       IN  /\ run.result[1] = SumOfMeans(n, "loss_", {})
           /\ run.include[1] => run.result[2] = SumOfMeans(n, "e_mae", {})
           /\ run.include[2] => run.result[3] = SumOfMeans(n, "f_mae", qm9)
           /\ run.include[3] => run.result[4] = SumOfMeans(n, "s_mae", {})

\* C29 witness: a validation pass with forces over QM9 and another data
\* set, both with batches, where QM9 has a force error of its own.
C29_Witness ==
    /\ run # NoRun /\ run.kind = "multi_head" /\ run.mode = "val"
    /\ run.status = "done"
    /\ run.include = <<TRUE, TRUE, FALSE>>
    /\ run.dataset_name_list[2] = "QM9"
    /\ run.lens = <<MaxBatches, MaxBatches>>
    /\ EpochMean(1, "f_mae") \notin {Zero, NaN}
    /\ EpochMean(0, "f_mae") \notin {Zero, NaN}
    /\ run.result[3] = EpochMean(0, "f_mae")
    /\ run.result[1] = Add(EpochMean(0, "loss_"), EpochMean(1, "loss_"))

\* C25: in every epoch e of train_model the passes are followed by exactly
\* one scheduler step, then last_epoch := e and validation_metrics := the
\* validation result of e, then one call of the checkpoint manager; every
\* file the manager writes in epoch e records last_epoch = e and the
\* validation metrics of e, and the run stops early only on the manager's
\* return, between two epochs.
C25_EpochOrderAndRecord ==
    [][\A p \in Procs :
          /\ (pc[p] # "ckpt" /\ pc'[p] = "ckpt")
             => /\ pc[p] \in {"loop", "shards"}
                /\ pot'[p].scheduler.state = pot[p].scheduler.state + 1
                /\ pot'[p].last_epoch = epoch[p]
                /\ pot'[p].validation_metrics = MetricsDict(metric'[p])
                /\ hist'[p].ran = Append(hist[p].ran, epoch[p])
          /\ (pc[p] = "ckpt" /\ pc'[p] # "ckpt")
             => /\ pot[p].last_epoch = epoch[p]
                /\ pot[p].validation_metrics = MetricsDict(metric[p])
                /\ pot[p].scheduler.state
                     = hist[p].before.scheduler.state + Len(hist[p].ran)
                /\ pot'[p].scheduler = pot[p].scheduler
                /\ \A f \in call'[p].wrote :
                      /\ files'[f].last_epoch = epoch[p]
                      /\ files'[f].validation_metrics = MetricsDict(metric[p])
                /\ pc'[p] \in {"loop", "early_stop", "raised"}
          /\ (pc[p] # "early_stop" /\ pc'[p] = "early_stop") => pc[p] = "ckpt"
          /\ (\A q \in Procs : pc[q] # "ckpt") => files' = files]_vars

\* C25 witness: a run of three epochs has returned; the last file written
\* records the last epoch, and the scheduler made three steps.
C25_Witness ==
    /\ pc[0] = "returned"
    /\ hist[0].ran = <<0, 1, 2>>
    /\ files[LastFile].kind = "record"
    /\ files[LastFile].last_epoch = 2
    /\ files[LastFile].validation_metrics = MetricsDict(metric[0])
    /\ files[CkptFile(0)].kind = "record"
    /\ files[CkptFile(0)].last_epoch = 0
    /\ pot[0].scheduler.state = hist[0].before.scheduler.state + 3

\* The number of epochs a call on a state with last_epoch = k has to run.
EpochsToRun(k) == IF args.epochs - k - 1 > 0 THEN args.epochs - k - 1 ELSE 0

\* C26: train_model called on a state with last_epoch = k runs the epochs
\* k+1, k+2, ... in increasing order, each at most once, raises last_epoch
\* by one per completed epoch and completes at most epochs - k - 1 epochs;
\* when k + 1 >= epochs it runs no epoch, writes no checkpoint and leaves
\* last_epoch and validation_metrics unchanged.
C26_ResumeAndTermination ==
    \A p \in Procs :
        LET k == hist[p].before.last_epoch
            n == Len(hist[p].ran)
        IN  /\ \A i \in 1..n : hist[p].ran[i] = k + i
            /\ n <= EpochsToRun(k)
            /\ pot[p].last_epoch = k + n
            /\ pc[p] \in {"loop", "shards", "loaded"} => epoch[p] = k + n + 1
            /\ pc[p] = "returned" => n = EpochsToRun(k)
            /\ k + 1 >= args.epochs
                 => /\ n = 0
                    /\ pc[p] \in {"call", "loop", "returned"}
                    /\ \A f \in FileNames : files[f] = Absent
                    /\ pot[p].validation_metrics
                         = hist[p].before.validation_metrics

\* C26 witness: a run resumed after epoch 0 has run the epochs 1 and 2 and
\* returned.
C26_Witness ==
    /\ pc[0] = "returned"
    /\ hist[0].before.last_epoch = 0
    /\ hist[0].ran = <<1, 2>>
    /\ pot[0].last_epoch = 2

\* The positions of the events `op` of epoch e in the record of the call.
EventsOf(p, e, op) ==
    {i \in 1..Len(hist[p].events) :
        hist[p].events[i].epoch = e /\ hist[p].events[i].op = op}

RECURSIVE UninterruptedOrder(_, _, _)
UninterruptedOrder(x, seed, e) ==
    IF e = 0 THEN Shuffle(x, seed)
    ELSE Shuffle(UninterruptedOrder(x, seed, e - 1), seed + e)

\* C28 (as stated): the order in which a run visits the shards in epoch e
\* is the one every other run given the same list and seed has in epoch e,
\* in particular the uninterrupted run, whichever epochs the run executed
\* before e.
C28_ShardOrderDeterministic ==
    \A p \in Procs :
        Streaming =>
            \A i \in 1..Len(hist[p].events) :
                LET ev == hist[p].events[i]
                    pos == Cardinality({j \in EventsOf(p, ev.epoch, "load") :
                                           j <= i})
                IN  ev.op = "load"
                      => ev.data_path
                           = UninterruptedOrder(hist[p].passed, args.seed,
                                                ev.epoch)[pos]

\* The entries of head h in a multi-head state dict.
HeadEntries(state_dict, h) ==
    {k \in DOMAIN state_dict : k.module \in HeadLists /\ k.index = Digits(h)}

\* The single-head name of an entry of a head: final.* for final_layer_list,
\* normalizer.* for normalizer_list.
SingleHeadName(key) ==
    Key(IF key.module = "final_layer_list" THEN "final" ELSE "normalizer",
        <<>>, key.rest)

\* C30: load_from_multi_head_model of a multi-head record for m3gnet: with
\* head_index h >= 0 every entry of head h is in the weight mapping under
\* its single-head name with the same value, and the mapping holds no value
\* of another head, no *_list key and no sph_2 key; with head_index -1 the
\* mapping holds no value of any head and the operation returns a model.
C30_LoadsOneHead ==
    (last_op.op = "load_from_multi_head_model" /\ last_op.model_name = "m3gnet")
    => LET h == last_op.head_index
           before == last_op.checkpoint.model
           after == last_op.state_dict
       IN  /\ h >= 0 =>
                /\ \A k \in HeadEntries(before, h) :
                      /\ SingleHeadName(k) \in DOMAIN after
                      /\ after[SingleHeadName(k)] = before[k]
                /\ \A k \in DOMAIN after :
                      /\ k.module \notin HeadLists \cup {"sph_2"}
                      /\ after[k].of.module # "sph_2"
                      /\ after[k].of.module \in HeadLists
                         => after[k].of.index = Digits(h)
           /\ h = -1 =>
                /\ \A k \in DOMAIN after : after[k].of.module = "body"
                /\ last_op.result.status = "returned"

\* C34: a finetune_mode that raises (finetune_layers out of range) leaves
\* the model's finetune_mode flag, finetune_head, task mean and std, the
\* requires_grad flags and use_finetune_label_loss as they were before the
\* call, and so does finetune_mode for a model name other than graphormer
\* and geomformer.
C34_FinetuneModeUnchangedOnFailure ==
    (/\ last_op.op = "finetune_mode"
     /\ \/ last_op.result.status = "raised"
        \/ last_op.model_name \notin UnsupportedModels)
    => last_op.after = last_op.before

\* C35: a load that returns restores the epoch metadata all or nothing:
\* with load_training_state true and last_epoch, validation_metrics and
\* description all in the record, the three are the record's; if one of
\* them is missing, or load_training_state is false, the three are the
\* defaults (-1, {"loss": 0.0}, ""), whatever the record holds.
C35_EpochMetadataAllOrNothing ==
    [][(LoadOfRecord /\ loaded'.result.status = "ok")
       => LET file == files[loaded'.path]
              self == loaded'.result.pot
          IN
          IF loaded'.load_training_state /\ MetadataKeys \subseteq DOMAIN file
          THEN /\ self.last_epoch = file.last_epoch
               /\ self.validation_metrics = file.validation_metrics
               /\ self.description = file.description
          ELSE /\ self.last_epoch = DefaultLastEpoch
               /\ self.validation_metrics = [loss |-> 0]
               /\ self.description = ""]_vars

\* C35 witness: a record of a trained state (last_epoch 1, description
\* "run") that lacks validation_metrics alone was loaded with the training
\* state asked for: last_epoch and description are the defaults.
C35_Witness ==
    /\ loaded.result.status = "ok"
    /\ loaded.load_training_state
    /\ loaded.path = BestFile
    /\ MetadataKeys \ DOMAIN files[BestFile] = {"validation_metrics"}
    /\ files[BestFile].last_epoch = 1
    /\ files[BestFile].description = "run"
    /\ loaded.result.pot.last_epoch = DefaultLastEpoch
    /\ loaded.result.pot.description = ""

\* The scheduler of a training state adjusts the optimizer of that state.
SchedulerBound(self) == self.scheduler.opt = self.optimizer.id

\* C31: in every training state the constructor or Potential.load produces,
\* whatever the optimizer and scheduler entries of the record are, the
\* scheduler held by the state is bound to the optimizer held by the same
\* state.
C31_SchedulerBoundToOptimizer ==
    /\ \A p \in Procs : SchedulerBound(pot[p])
    /\ loaded.result.status = "ok" => SchedulerBound(loaded.result.pot)

\* C32: a train_model on a Potential whose scheduler is a ReduceLROnPlateau
\* steps the scheduler once per epoch run, each time with a single scalar,
\* the monitored validation value of the epoch, and the epoch goes on to
\* the checkpoint manager: the call raises for a bad metric name only.
C32_PlateauStepsWithScalar ==
    \A p \in Procs :
        pot[p].scheduler.kind = "ReduceLROnPlateau"
        => /\ \A i \in DOMAIN hist[p].stepped :
                 hist[p].stepped[i].kind = "scalar"
           /\ Len(hist[p].stepped) = Len(hist[p].ran)
           /\ pc[p] = "raised" => IndexOf(args.metric_name) = -1

\* C33: for every combination of include_forces and include_stresses on a
\* supported model, when include_stresses is true (and the gradients asked
\* for are defined) the result of forward contains stresses and
\* get_properties returns a tuple that ends with them, also when
\* include_forces is false.
C33_RequestedStressReturned ==
    (/\ last_op.op \in {"forward", "get_properties"}
     /\ last_op.model_name \notin UnsupportedModels
     /\ last_op.include_stresses
     /\ last_op.stress_grad # None
     /\ last_op.include_forces => last_op.force_grad # None)
    => /\ last_op.result.status = "returned"
       /\ last_op.op = "forward" => "stresses" \in DOMAIN last_op.result.output
       /\ last_op.op = "get_properties"
            => /\ "stresses" \in DOMAIN last_op.output
               /\ last_op.result.value # <<None>>
               /\ last_op.result.value[Len(last_op.result.value)] = "stresses"

\* C36: a distributed run restarted from a checkpoint starts with the
\* best-so-far value that was in use when the checkpoint was saved, and its
\* save_model_ddp overwrites best_model.pth only in an epoch whose selected
\* metric is strictly below the metric of the best_model.pth on disk.
C36_DistributedBestSurvivesRestart ==
    [][\A p \in Procs :
          /\ (pc[p] = "call" /\ best_seen[p].set)
                => pot[p].best_metric = best_seen[p].value
          /\ (/\ save_model_ddp(p)
              /\ files[BestFile].kind = "record"
              /\ BestFile \in call'[p].wrote)
                => Selected(metric[p], pot[p])
                     < StoredMetric(files[BestFile], pot[p])]_vars
====
